---- MODULE Spec2Model ----
(***************************************************************************)
(* Proxy-Mail: the POP3-to-IMAP translator (POP3Server.handleIMAPBackend)  *)
(* and the SMTP session machine (SMTPServer.handleSMTPSessionDynamic),     *)
(* modelled from src/smtp.go.  One action is one handled client line, with *)
(* every upstream round trip the handler makes; the upstream server's      *)
(* answers are the nondeterministic inputs of the action.                  *)
(***************************************************************************)
EXTENDS Integers, Sequences, FiniteSets, TLC

\* ------------------------------------------------------------------ bounds
\* messages the upstream INBOX may hold
MaxCount == 2
\* client lines handled in one POP3 session
MaxCmds == 5
\* largest line count a client asks of TOP
MaxTop == 2
\* client lines handled in one SMTP session
MaxSmtpCmds == 4
\* body lines a client sends in one body relay
MaxBody == 3
\* body lines of a fetched message
MaxBodyLines == 3
\* connections a server accepts
MaxConns == 3

\* ------------------------------------------------------- program constants
\* var imapTag int = 1000
InitialTag == 1000
\* size := 1024 // Default size
DefaultSize == 1024

\* a MailServerConfig; a nil *MailServerConfig is NoCfg
Cfg(user, pass, port, tls) ==
  [nil |-> FALSE, Username |-> user, Password |-> pass, Port |-> port, UseTLS |-> tls]
NoCfg == [nil |-> TRUE, Username |-> "", Password |-> "", Port |-> 0, UseTLS |-> FALSE]

\* ----------------------------------------------------------- configuration
\* Config.Servers: the ordered mailbox profiles (ServerConfig)
Servers ==
  << [Name |-> "work",
      POP3 |-> Cfg("alice", "pwP", 995, TRUE),
      IMAP |-> Cfg("alice", "pwA", 993, TRUE),
      SMTP |-> Cfg("a@x.com", "pw1", 587, TRUE)],
     [Name |-> "home",
      POP3 |-> Cfg("bob", "pwB", 995, TRUE),
      IMAP |-> NoCfg,
      SMTP |-> Cfg("b@y.com", "pw2", 465, TRUE)],
     [Name |-> "legacy",
      POP3 |-> NoCfg,
      IMAP |-> NoCfg,
      SMTP |-> Cfg("e@v.net", "pw3", 2525, TRUE)] >>

\* strings.ToUpper on the tokens a client may send
ToUpper(s) ==
  CASE s = "alice" -> "ALICE"
    [] s = "Alice" -> "ALICE"
    [] s = "bob"   -> "BOB"
    [] s = "carol" -> "CAROL"
    [] s = "retr"  -> "RETR"
    [] s = "x"     -> "X"
    [] s = "mail"  -> "MAIL"
    [] s = "from:" -> "FROM:"
    [] s = "auth"  -> "AUTH"
    [] s = "plain" -> "PLAIN"
    [] s = "secret" -> "SECRET"
    [] s = "pwA"   -> "PWA"
    [] OTHER       -> s

\* strings.EqualFold
EqualFold(a, b) == ToUpper(a) = ToUpper(b)

\* strings.Fields(strings.ToUpper(line)): the line is kept as its fields
UpperFields(line) == [i \in 1..Len(line) |-> ToUpper(line[i])]

\* strconv.Atoi on a field: [ok, val]
NumRange == (0 - 1)..(MaxCount + MaxTop + 1)
Atoi(s) ==
  IF \E n \in NumRange : ToString(n) = s
  THEN [ok |-> TRUE, val |-> CHOOSE n \in NumRange : ToString(n) = s]
  ELSE [ok |-> FALSE, val |-> 0]

\* Config.GetServerByProtocol: the first of the matching profile indexes, 0 for nil
FirstWith(matching) ==
  IF matching # {}
  THEN CHOOSE i \in matching : \A j \in matching : i <= j
  ELSE 0

GetServerByProtocol(protocol) ==
  CASE protocol = "imap" -> FirstWith({i \in 1..Len(Servers) : ~Servers[i].IMAP.nil})
    [] protocol = "pop3" -> FirstWith({i \in 1..Len(Servers) : ~Servers[i].POP3.nil})
    [] protocol = "smtp" -> FirstWith({i \in 1..Len(Servers) : ~Servers[i].SMTP.nil})
    [] OTHER -> 0

\* ------------------------------------------------------------------- state
VARIABLES
  \* POP3Server.handleIMAPBackend locals (serverConfig: index in Servers, 0 for nil;
  \* upstreamConn: "nil", "open", "eof" once the upstream has closed it, "closed")
  pop3State, imapTag, authenticated, selectedMailbox, messageCount,
  clientUsername, serverConfig, upstreamConn, upstreamConfig, protocol,
  \* the session's progress: "running", "returned", "panic", "blocked"
  p3status,
  \* what the session wrote upstream and to the client, and the line it handled
  upLog, reply, lastCmd, nCmds, dialed,
  \* what handling the last line wrote to the log (log.Printf), entry by entry
  logged,
  \* the upstream INBOX: message ids and those flagged \Deleted
  mboxMsgs, mboxFlagged,
  \* how far the last handled lines match DELE 2, RSET, QUIT (0: not at all)
  scen,
  \* SMTPServer.handleSMTPSessionDynamic: the smtpState struct (upstreamConn: "nil",
  \* "open", "eof"; serverConfig: index in Servers, 0 for nil)
  state,
  \* the SMTP session's progress: "running", "returned", "panic", "blocked"
  smtpStatus,
  \* the client line handled last, what handling it wrote to the client and upstream,
  \* the connections it dialed and the TLS handshakes it started, and how the
  \* upstream behaved meanwhile
  smtpLine, smtpReply, smtpWritten, smtpDialed, tlsStarted, smtpEnv, smtpCmds,
  \* the identity of the session's last successful authentication ("" for none)
  authedAs,
  \* s.config.Servers as loaded: the profiles of Servers whose smtp section is
  \* present (ServerConfig.SMTP != nil)
  smtpSections,
  \* the profile with whose credentials the upstream has answered 235 on the
  \* session's upstream connection (0: none, or no connection)
  upstreamAuthed,
  \* SMTPServer.handleSMTPDataMode: the client's body lines, whether the relay has
  \* run, its error and the bytes it wrote upstream
  dataIn, dataDone, dataErr, dataSent,
  \* the RETR and TOP loops on one message: the message, the command, the line
  \* limit of TOP and the lines written to the client
  fetchMsg, fetchOp, fetchLimit, fetchOut,
  \* a server (SMTPServer, POP3Server): its stopping flag, its listener ("nil",
  \* "open", "closed") and its WaitGroup counter; the sessions among them that are
  \* handling a client line; the connections accepted so far; where Start and
  \* ProxyService.Stop stand
  stopping, listener, wg, busy, accepted, startPc, stopPc,
  \* forwarded commands on an authenticated upstream connection: the lines the
  \* upstream has sent that no read has taken yet, the line forwarded last, the
  \* reply the upstream gave to it, what was written to the client for it, and the
  \* number of commands forwarded
  upQueue, fwdLine, fwdReply, fwdRelayed, fwdCmds

p3vars == << pop3State, imapTag, authenticated, selectedMailbox, messageCount,
             clientUsername, serverConfig, upstreamConn, upstreamConfig, protocol,
             p3status, upLog, reply, lastCmd, nCmds, dialed, mboxMsgs, mboxFlagged,
             scen, logged >>

smtpvars == << state, smtpStatus, smtpLine, smtpReply, smtpWritten, smtpDialed,
               tlsStarted, smtpEnv, smtpCmds, authedAs, smtpSections, upstreamAuthed >>

datavars == << dataIn, dataDone, dataErr, dataSent >>

fetchvars == << fetchMsg, fetchOp, fetchLimit, fetchOut >>

srvvars == << stopping, listener, wg, busy, accepted, startPc, stopPc >>

fwdvars == << upQueue, fwdLine, fwdReply, fwdRelayed, fwdCmds >>

vars == << p3vars, smtpvars, datavars, fetchvars, srvvars, fwdvars >>

\* state := &smtpState{}
NewState ==
  [isAuthenticated |-> FALSE, authUsername |-> "", authState |-> "", mailboxName |-> "",
   upstreamConn |-> "nil", serverConfig |-> 0, inDataMode |-> FALSE, heloHost |-> ""]

\* nothing consulted: connection attempt, handshake, response to the command,
\* the client's body, final status
NoEnv == [c |-> "-", h |-> "-", m |-> "-", b |-> "-", f |-> "-"]

\* no POP3 session, no SMTP session, no body relay, no fetch loop in this behaviour
Pop3Off ==
  /\ pop3State = "" /\ imapTag = InitialTag /\ authenticated = FALSE
  /\ selectedMailbox = FALSE /\ messageCount = 0 /\ clientUsername = ""
  /\ serverConfig = 0 /\ upstreamConn = "nil" /\ upstreamConfig = NoCfg /\ protocol = ""
  /\ p3status = "off" /\ upLog = << >> /\ reply = << >> /\ lastCmd = << >> /\ nCmds = 0
  /\ dialed = << >> /\ mboxMsgs = {} /\ mboxFlagged = {} /\ scen = 0
  /\ logged = << >>

SmtpOff ==
  /\ state = NewState /\ smtpStatus = "off" /\ smtpLine = << >> /\ smtpReply = << >>
  /\ smtpWritten = << >> /\ smtpDialed = 0 /\ tlsStarted = 0 /\ smtpEnv = NoEnv
  /\ smtpCmds = 0 /\ authedAs = "" /\ smtpSections = {} /\ upstreamAuthed = 0

DataOff == dataIn = << >> /\ dataDone = FALSE /\ dataErr = FALSE /\ dataSent = << >>

FetchOff == fetchMsg = << >> /\ fetchOp = "" /\ fetchLimit = 0 /\ fetchOut = << >>

SrvOff ==
  /\ stopping = FALSE /\ listener = "nil" /\ wg = 0 /\ busy = 0 /\ accepted = 0
  /\ startPc = "off" /\ stopPc = "off"

FwdOff ==
  /\ upQueue = << >> /\ fwdLine = << >> /\ fwdReply = << >> /\ fwdRelayed = << >>
  /\ fwdCmds = 0

\* ------------------------------------------------------------ IMAP upstream
\* the tag as it is written: fmt.Sprintf("A%d ...", imapTag)
TagStr(tag) == "A" \o ToString(tag)

\* imapTag++ left out: the tag of the previous command is used again
NextTagReused(tag) == tag

\* imapTag++
NextTag(tag) == tag + 1

\* strings.HasPrefix(response, fmt.Sprintf("A%d OK", imapTag)) and the NO / BAD forms
IsTagged(response, tag, st) ==
  Len(response) >= 2 /\ response[1] = TagStr(tag) /\ response[2] = st

\* strings.Contains(response, w), on the fields of the line
Contains(response, w) == \E i \in 1..Len(response) : response[i] = w

\* strings.HasPrefix(response, ")")
HasPrefixParen(response) == Len(response) >= 1 /\ response[1] = ")"

\* How an upstream answers one command: a tagged OK after the command's data,
\* a tagged OK without data, a tagged NO or BAD, or closing the connection.
Outcomes == {"OK", "NO", "BAD", "EOF"}

\* the content of message id in the upstream INBOX, line by line
Message(id) ==
  CASE id = 1 -> << <<"Subject:", "one">>, <<>>, <<"body1">>, <<"body2">> >>
    [] id = 2 -> << <<"Subject:", "two">>, <<"To:", "bob">>, <<>>, <<"hello">> >>
    [] OTHER  -> << <<"Subject:", "more">>, <<>>, <<"a">>, <<"b">>, <<"c">> >>

\* the lines an IMAP server sends for FETCH n (RFC822) of a message
FetchData(n, msg) ==
  << <<"*", ToString(n), "FETCH", "(", "RFC822", "{size}">> >> \o msg \o << <<")">> >>

\* the lines the upstream sends in answer to a command, by outcome
Answer(tag, data, outcome) ==
  CASE outcome = "OK"  -> data \o << <<TagStr(tag), "OK">> >>
    [] outcome = "NO"  -> << <<TagStr(tag), "NO">> >>
    [] outcome = "BAD" -> << <<TagStr(tag), "BAD">> >>
    [] OTHER           -> << >>

\* for scanner.Scan() { if HasPrefix(response, "A<tag> OK") { break } }:
\* TRUE when the loop leaves by break
WaitOK(lines, tag) == \E i \in 1..Len(lines) : IsTagged(lines[i], tag, "OK")

\* the LOGIN and SELECT loops: "ok", "fail" (tagged NO or BAD first) or "none"
WaitTagged(lines, tag) ==
  LET hits == {i \in 1..Len(lines) :
                 \/ IsTagged(lines[i], tag, "OK")
                 \/ IsTagged(lines[i], tag, "NO")
                 \/ IsTagged(lines[i], tag, "BAD")}
  IN IF hits = {} THEN "none"
     ELSE LET first == CHOOSE i \in hits : \A j \in hits : i <= j
          IN IF IsTagged(lines[first], tag, "OK") THEN "ok" ELSE "fail"

\* the RETR loop over the upstream lines: [out, done]; done = left by break
RECURSIVE RetrLoop(_, _, _, _, _)
RetrLoop(lines, i, inMessage, out, tag) ==
  IF i > Len(lines) THEN [out |-> out, done |-> FALSE]
  ELSE LET response == lines[i] IN
    IF Contains(response, "RFC822") THEN RetrLoop(lines, i + 1, TRUE, out, tag)
    ELSE IF ~inMessage THEN RetrLoop(lines, i + 1, inMessage, out, tag)
    ELSE IF IsTagged(response, tag, "OK") THEN [out |-> out, done |-> TRUE]
    ELSE IF HasPrefixParen(response) THEN RetrLoop(lines, i + 1, inMessage, out, tag)
    ELSE RetrLoop(lines, i + 1, inMessage, Append(out, response), tag)

\* the TOP loop: as RETR, with the header/body split and the body line limit
RECURSIVE TopLoop(_, _, _, _, _, _, _, _)
TopLoop(lines, i, inMessage, headersDone, bodyLines, limit, out, tag) ==
  IF i > Len(lines) THEN [out |-> out, done |-> FALSE]
  ELSE LET response == lines[i] IN
    IF Contains(response, "RFC822")
    THEN TopLoop(lines, i + 1, TRUE, headersDone, bodyLines, limit, out, tag)
    ELSE IF ~inMessage
    THEN TopLoop(lines, i + 1, inMessage, headersDone, bodyLines, limit, out, tag)
    ELSE IF IsTagged(response, tag, "OK") THEN [out |-> out, done |-> TRUE]
    ELSE IF HasPrefixParen(response)
    THEN TopLoop(lines, i + 1, inMessage, headersDone, bodyLines, limit, out, tag)
    ELSE IF ~headersDone /\ response = << >>
    THEN TopLoop(lines, i + 1, inMessage, TRUE, bodyLines, limit, Append(out, << >>), tag)
    ELSE IF ~headersDone
    THEN TopLoop(lines, i + 1, inMessage, headersDone, bodyLines, limit,
                 Append(out, response), tag)
    ELSE IF bodyLines < limit
    THEN TopLoop(lines, i + 1, inMessage, headersDone, bodyLines + 1, limit,
                 Append(out, response), tag)
    ELSE TopLoop(lines, i + 1, inMessage, headersDone, bodyLines, limit, out, tag)

\* ------------------------------------------------------- POP3 session: USER, PASS
\* client-visible lines
ErrState == <<"-ERR Command not valid in this state">>
ErrNoSuch == <<"-ERR No such message">>
ErrSyntax == <<"-ERR Invalid syntax">>

\* a client line is handled while the read loop runs
Ready == p3status = "running" /\ nCmds < MaxCmds

\* the progress of the lines DELE 2, RSET, QUIT, each handled to its end in TRANSACTION
ScenStep(sc, parts, completed) ==
  IF ~completed \/ pop3State # "TRANSACTION" THEN 0
  ELSE IF parts = <<"DELE", "2">> THEN 1
  ELSE IF sc = 1 /\ parts = <<"RSET">> THEN 2
  ELSE IF sc = 2 /\ parts = <<"QUIT">> THEN 3
  ELSE 0

\* the handler answers on the client connection alone; nothing else changes
Answers(parts, lines) ==
  /\ reply' = lines
  /\ scen' = ScenStep(scen, parts, lines # <<ErrNoSuch>>)
  /\ nCmds' = nCmds + 1
  /\ UNCHANGED << pop3State, imapTag, authenticated, selectedMailbox, messageCount,
                  clientUsername, serverConfig, upstreamConn, upstreamConfig, protocol,
                  p3status, upLog, dialed, mboxMsgs, mboxFlagged >>

\* a line answered locally, and the session goes on to the next line
Local(parts, lines) == Answers(parts, lines) /\ lastCmd' = parts

\* the condition of the USER loop over s.config.Servers
UserMatches(sv, name) ==
  \/ ~sv.POP3.nil /\ EqualFold(sv.POP3.Username, name)
  \/ ~sv.IMAP.nil /\ EqualFold(sv.IMAP.Username, name)

\* serverConfig after USER name, from serverConfig before it
ResolveUser(current, name) ==
  LET m == FirstWith({i \in 1..Len(Servers) : UserMatches(Servers[i], name)})
      afterLoop == IF m # 0 THEN m ELSE current
  IN IF afterLoop # 0 THEN afterLoop
     ELSE IF GetServerByProtocol("imap") # 0 THEN GetServerByProtocol("imap")
     ELSE GetServerByProtocol("pop3")

CmdUSER(line) ==
  /\ Ready
  /\ LET parts == UpperFields(line) IN
     /\ parts[1] = "USER"
     /\ IF pop3State # "AUTHORIZATION" THEN Local(parts, <<ErrState>>)
        ELSE IF Len(parts) # 2 THEN Local(parts, << <<"-ERR Missing username">> >>)
        ELSE LET sc == ResolveUser(serverConfig, parts[2]) IN
          /\ clientUsername' = parts[2]
          /\ serverConfig' = sc
          /\ reply' = IF sc = 0 THEN << <<"-ERR Invalid username">> >>
                      ELSE << <<"+OK User accepted">> >>
          /\ lastCmd' = parts
          /\ nCmds' = nCmds + 1
          /\ UNCHANGED << pop3State, imapTag, authenticated, selectedMailbox, messageCount,
                          upstreamConn, upstreamConfig, protocol, p3status, upLog, dialed,
                          mboxMsgs, mboxFlagged, scen >>

\* the choice the other way round: POP3, else IMAP
PickUpstreamPop3First(sv) ==
  IF ~sv.POP3.nil THEN [cfg |-> sv.POP3, protocol |-> "POP3"]
  ELSE [cfg |-> sv.IMAP, protocol |-> "IMAP"]

\* the upstream config and protocol PASS picks: IMAP, else POP3
PickUpstream(sv) ==
  IF ~sv.IMAP.nil THEN [cfg |-> sv.IMAP, protocol |-> "IMAP"]
  ELSE [cfg |-> sv.POP3, protocol |-> "POP3"]

\* what the server behind the dialled endpoint may answer: an IMAP server answers
\* with tagged lines, a POP3 server with an untagged -ERR
OutcomesOf(conn, proto) ==
  IF conn # "open" THEN {"EOF"}
  ELSE IF proto = "IMAP" THEN Outcomes ELSE {"ERR", "EOF"}

AnswerOf(tag, data, outcome) ==
  IF outcome = "ERR" THEN << <<"-ERR">> >> ELSE Answer(tag, data, outcome)

\* the SELECT loop's messageCount: the last line with EXISTS whose 2nd field is a number
RECURSIVE SelectCount(_, _, _, _)
SelectCount(lines, i, count, tag) ==
  IF i > Len(lines) THEN count
  ELSE LET response == lines[i]
           c == IF Contains(response, "EXISTS") /\ Len(response) >= 2 /\ Atoi(response[2]).ok
                THEN Atoi(response[2]).val ELSE count
       IN IF \/ IsTagged(response, tag, "OK") \/ IsTagged(response, tag, "NO")
             \/ IsTagged(response, tag, "BAD")
          THEN c
          ELSE SelectCount(lines, i + 1, c, tag)

\* the untagged data an IMAP server sends for SELECT INBOX
SelectData(n) == << <<"*", ToString(n), "EXISTS">>, <<"*", "0", "RECENT">> >>

\* a command as it is logged upstream: rcvd tells whether the connection still stood
Written(tag, fields, conn) == [tag |-> tag, cmd |-> fields, rcvd |-> conn = "open"]

\* the upstream connection after the deferred upstreamConn.Close()
Closed(conn) == IF conn = "nil" THEN "nil" ELSE "closed"

\* the connection after a read loop: the upstream closing it is seen as EOF
AfterRead(conn, outcome) == IF outcome = "EOF" /\ conn = "open" THEN "eof" ELSE conn

\* the LOGIN command: fmt.Sprintf("A%d LOGIN %s %s", imapTag, upstreamConfig.Username,
\* upstreamConfig.Password), with the client's password in the place of the stored one
LoginCmdClientPass(cfg, parts) ==
  <<"LOGIN", cfg.Username, IF Len(parts) >= 2 THEN parts[2] ELSE "">>

\* the LOGIN command with the stored credentials
LoginCmd(cfg, parts) == <<"LOGIN", cfg.Username, cfg.Password>>

\* case "PASS": all it does to the session
PassEffect(line, dialOK, o1, o2) ==
  /\ Ready
  /\ LET parts == UpperFields(line) IN
     /\ parts[1] = "PASS"
     /\ IF pop3State # "AUTHORIZATION" THEN Answers(parts, <<ErrState>>)
        ELSE IF serverConfig = 0 THEN Answers(parts, << <<"-ERR USER command first">> >>)
        ELSE
          LET pick == PickUpstream(Servers[serverConfig])
              needDial == upstreamConn = "nil"
              conn0 == IF needDial THEN "open" ELSE upstreamConn
              \* LOGIN
              doLogin == ~authenticated
              tag1 == IF doLogin THEN NextTag(imapTag) ELSE imapTag
              log1 == IF doLogin
                      THEN Append(upLog, Written(tag1, LoginCmd(pick.cfg, parts), conn0))
                      ELSE upLog
              res1 == IF doLogin THEN WaitTagged(AnswerOf(tag1, << >>, o1), tag1) ELSE "ok"
              conn1 == IF doLogin THEN AfterRead(conn0, o1) ELSE conn0
              auth1 == authenticated \/ res1 = "ok"
              \* SELECT INBOX
              doSelect == auth1 /\ ~selectedMailbox
              tag2 == IF doSelect THEN NextTag(tag1) ELSE tag1
              log2 == IF doSelect
                      THEN Append(log1, Written(tag2, <<"SELECT", "INBOX">>, conn1))
                      ELSE log1
              lines2 == AnswerOf(tag2, SelectData(Cardinality(mboxMsgs)), o2)
              res2 == IF doSelect THEN WaitTagged(lines2, tag2) ELSE "ok"
              conn2 == IF doSelect THEN AfterRead(conn1, o2) ELSE conn1
              count2 == IF doSelect THEN SelectCount(lines2, 1, messageCount, tag2)
                        ELSE messageCount
          IN
          /\ o1 \in OutcomesOf(conn0, pick.protocol)
          /\ o2 \in OutcomesOf(conn1, pick.protocol)
          /\ nCmds' = nCmds + 1
          /\ upstreamConfig' = pick.cfg
          /\ protocol' = pick.protocol
          /\ UNCHANGED << clientUsername, serverConfig, mboxMsgs, mboxFlagged, scen >>
          /\ IF needDial /\ ~dialOK
             THEN \* tls.Dial / net.Dial failed
               /\ reply' = << <<"-ERR Cannot connect to mail server">> >>
               /\ p3status' = "returned"
               /\ dialed' = Append(dialed, pick.protocol)
               /\ UNCHANGED << pop3State, imapTag, authenticated, selectedMailbox,
                               messageCount, upstreamConn, upLog >>
             ELSE
               /\ dialed' = IF needDial THEN Append(dialed, pick.protocol) ELSE dialed
               /\ IF res1 = "fail"
                  THEN /\ reply' = << <<"-ERR Authentication failed">> >>
                       /\ p3status' = "returned"
                       /\ upstreamConn' = Closed(conn1)
                       /\ imapTag' = tag1 /\ upLog' = log1
                       /\ UNCHANGED << pop3State, authenticated, selectedMailbox,
                                       messageCount >>
                  ELSE IF res1 = "none" /\ o1 # "EOF"
                  THEN \* the LOGIN loop waits for a line that never comes
                       /\ reply' = << >>
                       /\ p3status' = "blocked"
                       /\ upstreamConn' = conn1
                       /\ imapTag' = tag1 /\ upLog' = log1
                       /\ UNCHANGED << pop3State, authenticated, selectedMailbox,
                                       messageCount >>
                  ELSE IF ~auth1
                  THEN \* the loop ended on EOF: nothing is answered
                       /\ reply' = << >>
                       /\ upstreamConn' = conn1
                       /\ imapTag' = tag1 /\ upLog' = log1
                       /\ UNCHANGED << pop3State, authenticated, selectedMailbox,
                                       messageCount, p3status >>
                  ELSE IF res2 = "fail"
                  THEN /\ reply' = << <<"-ERR Cannot select INBOX">> >>
                       /\ p3status' = "returned"
                       /\ upstreamConn' = Closed(conn2)
                       /\ authenticated' = TRUE
                       /\ messageCount' = count2
                       /\ imapTag' = tag2 /\ upLog' = log2
                       /\ UNCHANGED << pop3State, selectedMailbox >>
                  ELSE IF res2 = "none" /\ o2 # "EOF"
                  THEN /\ reply' = << >>
                       /\ p3status' = "blocked"
                       /\ upstreamConn' = conn2
                       /\ authenticated' = TRUE
                       /\ messageCount' = count2
                       /\ imapTag' = tag2 /\ upLog' = log2
                       /\ UNCHANGED << pop3State, selectedMailbox >>
                  ELSE /\ reply' = << <<"+OK Mailbox locked and ready">> >>
                       /\ pop3State' = "TRANSACTION"
                       /\ upstreamConn' = conn2
                       /\ authenticated' = TRUE
                       /\ selectedMailbox' = (selectedMailbox \/ res2 = "ok")
                       /\ messageCount' = count2
                       /\ imapTag' = tag2 /\ upLog' = log2
                       /\ UNCHANGED p3status

CmdPASS(line, dialOK, o1, o2) ==
  PassEffect(line, dialOK, o1, o2) /\ lastCmd' = UpperFields(line)

\* ------------------------------------------------- POP3 session: TRANSACTION verbs
\* var messages []IMAPMessage: declared and never appended to
messages == << >>

\* totalSize := 0; for _, msg := range messages { totalSize += msg.Size }
RECURSIVE TotalSize(_)
TotalSize(msgs) == IF msgs = << >> THEN 0 ELSE Head(msgs).Size + TotalSize(Tail(msgs))

\* the STAT answer
StatReply(count) == << <<"+OK", ToString(count), ToString(TotalSize(messages))>> >>

\* the LIST listing: one "<i> <size>" line per message of the snapshot
ListLines(count) == [i \in 1..count |-> <<ToString(i), ToString(DefaultSize)>>]

\* the UIDL listing: "<i> <username>.<i>"
UidlLines(count, user) == [i \in 1..count |-> <<ToString(i), user \o "." \o ToString(i)>>]

\* the range check with its upper limit off by one
BadMsgNumLoose(field, count) ==
  LET a == Atoi(field) IN ~a.ok \/ a.val < 1 \/ a.val > count + 1

\* msgNum, err := strconv.Atoi(parts[1]); err != nil || msgNum < 1 || msgNum > messageCount
BadMsgNum(field, count) ==
  LET a == Atoi(field) IN ~a.ok \/ a.val < 1 \/ a.val > count

CmdSTAT(line) ==
  /\ Ready
  /\ LET parts == UpperFields(line) IN
     /\ parts[1] = "STAT"
     /\ IF pop3State # "TRANSACTION" THEN Local(parts, <<ErrState>>)
        ELSE Local(parts, StatReply(messageCount))

CmdLIST(line) ==
  /\ Ready
  /\ LET parts == UpperFields(line) IN
     /\ parts[1] = "LIST"
     /\ IF pop3State # "TRANSACTION" THEN Local(parts, <<ErrState>>)
        ELSE IF Len(parts) = 1
        THEN Local(parts, << <<"+OK", ToString(messageCount), "messages">> >>
                          \o ListLines(messageCount) \o << <<".">> >>)
        ELSE IF Len(parts) = 2
        THEN IF ~BadMsgNum(parts[2], messageCount)
             THEN Local(parts, << <<"+OK", ToString(Atoi(parts[2]).val),
                                   ToString(DefaultSize)>> >>)
             ELSE Local(parts, <<ErrNoSuch>>)
        ELSE Local(parts, << >>)

CmdUIDL(line) ==
  /\ Ready
  /\ LET parts == UpperFields(line) IN
     /\ parts[1] = "UIDL"
     /\ IF pop3State # "TRANSACTION" THEN Local(parts, <<ErrState>>)
        ELSE IF Len(parts) = 1
        THEN Local(parts, << <<"+OK unique-id listing follows">> >>
                          \o UidlLines(messageCount, upstreamConfig.Username)
                          \o << <<".">> >>)
        ELSE IF Len(parts) = 2
        THEN IF ~BadMsgNum(parts[2], messageCount)
             THEN Local(parts, << <<"+OK", ToString(Atoi(parts[2]).val),
                                   upstreamConfig.Username \o "." \o
                                   ToString(Atoi(parts[2]).val)>> >>)
             ELSE Local(parts, <<ErrNoSuch>>)
        ELSE Local(parts, << >>)

\* the message set a STORE names: "n" or "1:n"
SeqSetOf(field) ==
  IF \E n \in NumRange : field = ToString(n)
  THEN {CHOOSE n \in NumRange : field = ToString(n)}
  ELSE IF \E n \in NumRange : field = "1:" \o ToString(n)
  THEN 1..(CHOOSE n \in NumRange : field = "1:" \o ToString(n))
  ELSE {}

\* the upstream INBOX after the IMAP server has carried out a command it answers OK
UpstreamExec(fields, outcome, msgs, flagged) ==
  IF outcome # "OK" THEN [msgs |-> msgs, flagged |-> flagged]
  ELSE IF fields[1] = "STORE" /\ fields[3] = "+FLAGS"
  THEN [msgs |-> msgs, flagged |-> flagged \cup (SeqSetOf(fields[2]) \cap msgs)]
  ELSE IF fields[1] = "STORE" /\ fields[3] = "-FLAGS"
  THEN [msgs |-> msgs, flagged |-> flagged \ SeqSetOf(fields[2])]
  ELSE IF fields[1] = "EXPUNGE"
  THEN [msgs |-> msgs \ flagged, flagged |-> {}]
  ELSE [msgs |-> msgs, flagged |-> flagged]

\* One upstream round trip of a TRANSACTION verb: imapTag++, the command written,
\* then the read loop.  left = the loop was left (by break, or by EOF); when it is
\* not, the session stays in scanner.Scan().
RoundTrip(parts, fields, left, outcome, lines) ==
  /\ lastCmd' = parts
  /\ nCmds' = nCmds + 1
  /\ imapTag' = NextTag(imapTag)
  /\ upLog' = Append(upLog, Written(NextTag(imapTag), fields, upstreamConn))
  /\ upstreamConn' = AfterRead(upstreamConn, outcome)
  /\ reply' = lines
  /\ p3status' = IF left THEN "running" ELSE "blocked"
  /\ mboxFlagged' = UpstreamExec(fields, outcome, mboxMsgs, mboxFlagged).flagged
  /\ mboxMsgs' = UpstreamExec(fields, outcome, mboxMsgs, mboxFlagged).msgs
  /\ scen' = ScenStep(scen, parts, left)
  /\ UNCHANGED << pop3State, authenticated, selectedMailbox, messageCount,
                  clientUsername, serverConfig, upstreamConfig, protocol, dialed >>

\* the FETCH command of RETR and TOP
FetchCmd(n) == <<"FETCH", ToString(n), "(RFC822)">>

\* what the upstream sends for FETCH n: the message when it exists
FetchAnswer(tag, n, msgs, outcome) ==
  AnswerOf(tag, IF n \in msgs THEN FetchData(n, Message(n)) ELSE << >>, outcome)

CmdRETR(line, o) ==
  /\ Ready
  /\ LET parts == UpperFields(line) IN
     /\ parts[1] = "RETR"
     /\ IF pop3State # "TRANSACTION" THEN Local(parts, <<ErrState>>)
        ELSE IF Len(parts) # 2 THEN Local(parts, <<ErrSyntax>>)
        ELSE IF BadMsgNum(parts[2], messageCount) THEN Local(parts, <<ErrNoSuch>>)
        ELSE
          LET msgNum == Atoi(parts[2]).val
              r == RetrLoop(FetchAnswer(NextTag(imapTag), msgNum, mboxMsgs, o), 1, FALSE,
                            << >>, NextTag(imapTag))
              left == r.done \/ o = "EOF"
          IN RoundTrip(parts, FetchCmd(msgNum), left, o,
                          << <<"+OK Message follows">> >> \o r.out
                          \o (IF left THEN << <<".">> >> ELSE << >>))

CmdTOP(line, o) ==
  /\ Ready
  /\ LET parts == UpperFields(line) IN
     /\ parts[1] = "TOP"
     /\ IF pop3State # "TRANSACTION" THEN Local(parts, <<ErrState>>)
        ELSE IF Len(parts) # 3 THEN Local(parts, <<ErrSyntax>>)
        ELSE IF BadMsgNum(parts[2], messageCount) THEN Local(parts, <<ErrNoSuch>>)
        ELSE IF ~Atoi(parts[3]).ok \/ Atoi(parts[3]).val < 0
        THEN Local(parts, << <<"-ERR Invalid line count">> >>)
        ELSE
          LET msgNum == Atoi(parts[2]).val
              r == TopLoop(FetchAnswer(NextTag(imapTag), msgNum, mboxMsgs, o), 1, FALSE,
                           FALSE, 0, Atoi(parts[3]).val, << >>, NextTag(imapTag))
              left == r.done \/ o = "EOF"
          IN RoundTrip(parts, FetchCmd(msgNum), left, o,
                          << <<"+OK Top of message follows">> >> \o r.out
                          \o (IF left THEN << <<".">> >> ELSE << >>))

\* the STORE commands of DELE and RSET, and the commands of QUIT
DeleCmd(n) == <<"STORE", ToString(n), "+FLAGS", "(\\Deleted)">>
RsetCmdShort(count) == <<"STORE", "1:" \o ToString(count - 1), "-FLAGS", "(\\Deleted)">>
RsetCmd(count) == <<"STORE", "1:" \o ToString(count), "-FLAGS", "(\\Deleted)">>
ExpungeCmd == <<"EXPUNGE">>
LogoutCmd == <<"LOGOUT">>

CmdDELE(line, o) ==
  /\ Ready
  /\ LET parts == UpperFields(line) IN
     /\ parts[1] = "DELE"
     /\ IF pop3State # "TRANSACTION" THEN Local(parts, <<ErrState>>)
        ELSE IF Len(parts) # 2 THEN Local(parts, <<ErrSyntax>>)
        ELSE IF BadMsgNum(parts[2], messageCount) THEN Local(parts, <<ErrNoSuch>>)
        ELSE
          LET msgNum == Atoi(parts[2]).val
              left == WaitOK(AnswerOf(NextTag(imapTag), << >>, o), NextTag(imapTag)) \/ o = "EOF"
          IN RoundTrip(parts, DeleCmd(msgNum), left, o,
                          IF left THEN << <<"+OK Message", ToString(msgNum), "deleted">> >>
                          ELSE << >>)

CmdNOOP(line) ==
  /\ Ready
  /\ LET parts == UpperFields(line) IN
     /\ parts[1] = "NOOP"
     /\ Local(parts, << <<"+OK">> >>)

CmdRSET(line, o) ==
  /\ Ready
  /\ LET parts == UpperFields(line) IN
     /\ parts[1] = "RSET"
     /\ IF pop3State # "TRANSACTION" THEN Local(parts, <<ErrState>>)
        ELSE
          LET left == WaitOK(AnswerOf(NextTag(imapTag), << >>, o), NextTag(imapTag)) \/ o = "EOF"
          IN RoundTrip(parts, RsetCmd(messageCount), left, o,
                          IF left THEN << <<"+OK">> >> ELSE << >>)

CmdQUIT(line, o) ==
  /\ Ready
  /\ LET parts == UpperFields(line)
         inTx == pop3State = "TRANSACTION"
         tag1 == IF inTx THEN NextTag(imapTag) ELSE imapTag
         log1 == IF inTx THEN Append(upLog, Written(tag1, ExpungeCmd, upstreamConn))
                 ELSE upLog
         left == ~inTx \/ WaitOK(AnswerOf(tag1, << >>, o), tag1) \/ o = "EOF"
         conn1 == IF inTx THEN AfterRead(upstreamConn, o) ELSE upstreamConn
     IN
     /\ parts[1] = "QUIT"
     /\ lastCmd' = parts
     /\ nCmds' = nCmds + 1
     /\ scen' = ScenStep(scen, parts, upstreamConn # "nil" /\ left)
     /\ UNCHANGED << pop3State, authenticated, selectedMailbox, messageCount,
                     clientUsername, serverConfig, upstreamConfig, protocol, dialed >>
     /\ IF upstreamConn = "nil"
        THEN \* fmt.Fprintf(upstreamConn, ...) on a nil net.Conn
          /\ imapTag' = NextTag(tag1)
          /\ p3status' = "panic"
          /\ reply' = << >>
          /\ UNCHANGED << upLog, upstreamConn, mboxMsgs, mboxFlagged >>
        ELSE IF ~left
        THEN /\ imapTag' = tag1
             /\ upLog' = log1
             /\ p3status' = "blocked"
             /\ reply' = << >>
             /\ upstreamConn' = conn1
             /\ UNCHANGED << mboxMsgs, mboxFlagged >>
        ELSE /\ imapTag' = NextTag(tag1)
             /\ upLog' = Append(log1, Written(NextTag(tag1), LogoutCmd, conn1))
             /\ p3status' = "returned"
             /\ reply' = << <<"+OK Goodbye">> >>
             /\ upstreamConn' = Closed(conn1)
             /\ mboxMsgs' = IF inTx
                            THEN UpstreamExec(ExpungeCmd, o, mboxMsgs, mboxFlagged).msgs
                            ELSE mboxMsgs
             /\ mboxFlagged' = IF inTx
                               THEN UpstreamExec(ExpungeCmd, o, mboxMsgs, mboxFlagged).flagged
                               ELSE mboxFlagged

CmdUnknown(line) ==
  /\ Ready
  /\ LET parts == UpperFields(line) IN
     /\ parts[1] \notin {"USER", "PASS", "STAT", "LIST", "UIDL", "RETR", "TOP", "DELE",
                         "NOOP", "RSET", "QUIT"}
     /\ Local(parts, << <<"-ERR Unknown command">> >>)

\* the client closes its connection: ReadBytes fails, the loop is left and the
\* closing log line reads upstreamConfig.Username
ClientEOF ==
  /\ p3status = "running"
  /\ p3status' = IF upstreamConfig.nil THEN "panic" ELSE "returned"
  /\ upstreamConn' = IF upstreamConfig.nil THEN upstreamConn ELSE Closed(upstreamConn)
  /\ lastCmd' = << >>
  /\ reply' = << >>
  /\ UNCHANGED << pop3State, imapTag, authenticated, selectedMailbox, messageCount,
                  clientUsername, serverConfig, upstreamConfig, protocol,
                  upLog, nCmds, dialed, mboxMsgs, mboxFlagged >>
  /\ scen' = 0
  /\ logged' = << <<"disconnected">> >>

\* the log entries of one handled line: the client's line as it came (CLIENT ->
\* PROXY), then each command written upstream, LOGIN with its password hidden
Pop3Log(line) ==
  logged' = << line >> \o
            [i \in 1..(Len(upLog') - Len(upLog)) |->
               LET w == upLog'[Len(upLog) + i]
               IN IF w.cmd[1] = "LOGIN"
                  THEN <<TagStr(w.tag), "LOGIN", w.cmd[2], "[hidden]">>
                  ELSE <<TagStr(w.tag)>> \o w.cmd]

\* ------------------------------------------------------- POP3 session: behaviour
\* the message numbers and line counts a client may send
MsgNums == {ToString(n) : n \in 0..(MaxCount + 1)} \cup {"x"}
TopCounts == {ToString(n) : n \in (0 - 1)..MaxTop}
UserNames == {"Alice", "bob", "carol"}

\* what a PASS line may meet: whether the dial succeeds and how the upstream answers
\* LOGIN and SELECT; a line answered locally consults none of them
PassEnvs ==
  IF pop3State = "AUTHORIZATION" /\ serverConfig # 0
  THEN BOOLEAN \X (Outcomes \cup {"ERR"}) \X (Outcomes \cup {"ERR"})
  ELSE {<<TRUE, "OK", "OK">>}

Pop3Init ==
  /\ pop3State = "AUTHORIZATION"
  /\ imapTag = InitialTag
  /\ authenticated = FALSE
  /\ selectedMailbox = FALSE
  /\ messageCount = 0
  /\ clientUsername = ""
  /\ serverConfig = 0
  /\ upstreamConn = "nil"
  /\ upstreamConfig = NoCfg
  /\ protocol = ""
  /\ p3status = "running"
  /\ upLog = << >>
  /\ reply = << <<"+OK POP3 server ready (IMAP backend)">> >>
  /\ lastCmd = << >>
  /\ nCmds = 0
  /\ dialed = << >>
  /\ \E n \in 0..MaxCount : mboxMsgs = 1..n
  /\ mboxFlagged = {}
  /\ scen = 0
  /\ logged = << >>
  /\ SmtpOff /\ DataOff /\ FetchOff /\ SrvOff /\ FwdOff

\* a POP3 session touches nothing else
Pop3Only == UNCHANGED << smtpvars, datavars, fetchvars, srvvars, fwdvars >>

DoUSER == Pop3Only /\ \E line \in {<<"USER", u>> : u \in UserNames} \cup {<<"USER">>} :
            CmdUSER(line) /\ Pop3Log(line)
DoPASS == Pop3Only /\ \E line \in {<<"PASS", "secret">>, <<"PASS", "pwA">>}, e \in PassEnvs :
            CmdPASS(line, e[1], e[2], e[3]) /\ Pop3Log(line)
DoSTAT == Pop3Only /\ CmdSTAT(<<"STAT">>) /\ Pop3Log(<<"STAT">>)
DoLIST == Pop3Only /\ \E line \in {<<"LIST">>, <<"LIST", "1", "2">>}
                                   \cup {<<"LIST", n>> : n \in MsgNums} :
            CmdLIST(line) /\ Pop3Log(line)
DoUIDL == Pop3Only /\ \E line \in {<<"UIDL">>} \cup {<<"UIDL", n>> : n \in MsgNums} :
            CmdUIDL(line) /\ Pop3Log(line)
DoRETR == Pop3Only /\ \E line \in {<<"RETR">>, <<"retr", "1">>}
                                   \cup {<<"RETR", n>> : n \in MsgNums},
                         o \in OutcomesOf(upstreamConn, protocol) :
            CmdRETR(line, o) /\ Pop3Log(line)
DoTOP == Pop3Only /\ \E line \in {<<"TOP", "1">>} \cup {<<"TOP", n, "1">> : n \in MsgNums}
                                  \cup {<<"TOP", "1", k>> : k \in TopCounts},
                        o \in OutcomesOf(upstreamConn, protocol) :
            CmdTOP(line, o) /\ Pop3Log(line)
DoDELE == Pop3Only /\ \E line \in {<<"DELE">>} \cup {<<"DELE", n>> : n \in MsgNums},
                         o \in OutcomesOf(upstreamConn, protocol) :
            CmdDELE(line, o) /\ Pop3Log(line)
DoNOOP == Pop3Only /\ CmdNOOP(<<"NOOP">>) /\ Pop3Log(<<"NOOP">>)
DoRSET == Pop3Only /\ \E o \in OutcomesOf(upstreamConn, protocol) :
            CmdRSET(<<"RSET">>, o) /\ Pop3Log(<<"RSET">>)
DoQUIT == Pop3Only /\ \E o \in OutcomesOf(upstreamConn, protocol) :
            CmdQUIT(<<"QUIT">>, o) /\ Pop3Log(<<"QUIT">>)
DoUnknown == Pop3Only /\ CmdUnknown(<<"XYZZY">>) /\ Pop3Log(<<"XYZZY">>)
DoClientEOF == Pop3Only /\ ClientEOF

Pop3Next ==
  \/ DoUSER \/ DoPASS \/ DoSTAT \/ DoLIST \/ DoUIDL \/ DoRETR \/ DoTOP
  \/ DoDELE \/ DoNOOP \/ DoRSET \/ DoQUIT \/ DoUnknown \/ DoClientEOF

Init == Pop3Init
Next == Pop3Next
Spec == Init /\ [][Next]_vars

\* ============================================================== SMTP session
\* A client line is the sequence of its pieces, blanks included: their
\* concatenation is the line after strings.TrimSpace.

\* base64.StdEncoding.EncodeToString on the strings a session meets
Base64Encode(str) ==
  CASE str = "a@x.com" -> "YUB4LmNvbQ=="
    [] str = "b@y.com" -> "YkB5LmNvbQ=="
    [] str = "c@z.com" -> "Y0B6LmNvbQ=="
    [] str = "pw1"     -> "cHcx"
    [] str = "pw2"     -> "cHcy"
    [] str = "bad"     -> "YmFk"
    [] str = "e@v.net" -> "ZUB2Lm5ldA=="
    [] str = "pw3"     -> "cHcz"

\* the strings a client sends in base64
Encodable == {"a@x.com", "b@y.com", "c@z.com", "pw1", "pw2", "bad"}

\* base64.StdEncoding.DecodeString: [ok, val]; any other line is malformed
Base64Decode(str) ==
  IF \E d \in Encodable : Base64Encode(d) = str
  THEN [ok |-> TRUE, val |-> CHOOSE d \in Encodable : Base64Encode(d) = str]
  ELSE [ok |-> FALSE, val |-> ""]

\* the line as one string
RECURSIVE Concat(_)
Concat(p) == IF p = << >> THEN "" ELSE Head(p) \o Concat(Tail(p))

\* strings.TrimSpace
RECURSIVE TrimSpace(_)
TrimSpace(p) ==
  IF p # << >> /\ Head(p) = " " THEN TrimSpace(Tail(p))
  ELSE IF p # << >> /\ p[Len(p)] = " " THEN TrimSpace(SubSeq(p, 1, Len(p) - 1))
  ELSE p

\* strings.Fields
RECURSIVE Fields(_)
Fields(p) ==
  IF p = << >> THEN << >>
  ELSE IF Head(p) = " " THEN Fields(Tail(p))
  ELSE LET stops == {i \in 1..Len(p) : p[i] = " "}
           n == IF stops = {} THEN Len(p)
                ELSE (CHOOSE i \in stops : \A j \in stops : i <= j) - 1
       IN << Concat(SubSeq(p, 1, n)) >> \o Fields(SubSeq(p, n + 1, Len(p)))

\* command = strings.ToUpper(fields[0])
Command(line) == IF Len(Fields(line)) > 0 THEN ToUpper(Fields(line)[1]) ELSE ""

\* SMTPServer.extractEmailFromMailFrom
extractEmailFromMailFrom(line) ==
  LET hits == {i \in 1..Len(line) : ToUpper(line[i]) = "FROM:"} IN
  IF hits = {} THEN ""
  ELSE LET start == CHOOSE i \in hits : \A j \in hits : i <= j
           remainder == TrimSpace(SubSeq(line, start + 1, Len(line)))
       IN IF remainder # << >> /\ Head(remainder) = "<" /\ remainder[Len(remainder)] = ">"
          THEN Concat(SubSeq(remainder, 2, Len(remainder) - 1))
          ELSE IF Len(Fields(remainder)) > 0 THEN Fields(remainder)[1]
          ELSE Concat(remainder)

\* server.SMTP != nil in the loaded configuration
HasSMTP(i) == i \in smtpSections /\ ~Servers[i].SMTP.nil

\* the second loop of findServerConfigBySender alone: the first SMTP profile,
\* whatever the sender
firstSmtpProfile(senderEmail) == FirstWith({i \in 1..Len(Servers) : HasSMTP(i)})

\* SMTPServer.findServerConfigBySender: exact match, else the first SMTP profile
findServerConfigBySender(senderEmail) ==
  LET exact == FirstWith({i \in 1..Len(Servers) : HasSMTP(i) /\ Servers[i].SMTP.Username = senderEmail})
  IN IF exact # 0 THEN exact ELSE FirstWith({i \in 1..Len(Servers) : HasSMTP(i)})

\* SMTPServer.findServerConfigByUsername
findServerConfigByUsername(email) ==
  FirstWith({i \in 1..Len(Servers) : HasSMTP(i) /\ Servers[i].SMTP.Username = email})

\* SMTPServer.validateCredentials
validateCredentials(username, password, config) ==
  Servers[config].SMTP.Username = username /\ Servers[config].SMTP.Password = password

\* lines the proxy writes upstream by itself
EhloLocalhost == <<"EHLO", " ", "localhost">>
EhloProxy == <<"EHLO", " ", "proxy-mail">>
StartTLS == <<"STARTTLS">>
AuthLogin == <<"AUTH", " ", "LOGIN">>

\* lines the proxy writes to the client by itself
Local451 == "451 Local error in processing"
Local530 == "530 Authentication required"
Local550Sender == "550 Sender address must match authenticated user"

\* a line of the upstream relayed to the client
Relayed(code) == code \o " from upstream"

\* SMTPServer.autoAuthenticateAfterSTARTTLS: what it writes
AutoAuthWrites(config) ==
  << AuthLogin, << Base64Encode(config.Username) >>, << Base64Encode(config.Password) >> >>

\* How the upstream takes the STARTTLS upgrade: closes before its greeting, does
\* not answer STARTTLS, answers it with another code than 220, fails the TLS
\* handshake, refuses the login after it, or follows the protocol.
UpgradeOutcomes == {"noGreeting", "noReply", "refused", "handshakeFailed", "authFailed", "ok"}

\* SMTPServer.upgradeToSTARTTLS: [conn, err, written, handshakes]
upgradeToSTARTTLS(config, c) ==
  IF c = "noGreeting"
  THEN [conn |-> "nil", err |-> TRUE, written |-> << >>, handshakes |-> 0]
  ELSE IF c \in {"noReply", "refused"}
  THEN [conn |-> "nil", err |-> TRUE, written |-> << EhloLocalhost, StartTLS >>,
        handshakes |-> 0]
  ELSE IF c = "handshakeFailed"
  THEN [conn |-> "nil", err |-> TRUE, written |-> << EhloLocalhost, StartTLS >>,
        handshakes |-> 1]
  ELSE [conn |-> IF c = "authFailed" THEN "nil" ELSE "open",
        err |-> c = "authFailed",
        written |-> << EhloLocalhost, StartTLS, EhloLocalhost >> \o AutoAuthWrites(config),
        handshakes |-> 1]

\* the outcomes of one connection attempt to a profile's SMTP server
ConnectOutcomes(sc) ==
  IF Servers[sc].SMTP.Port = 587 /\ Servers[sc].SMTP.UseTLS
  THEN {"dialFailed"} \cup UpgradeOutcomes
  ELSE {"dialFailed", "ok"}

\* SMTPServer.connectToUpstream: [conn, err, panic, written, handshakes]; after a
\* failed upgrade upstreamConn is nil and upstreamConn.Close() is called on it
connectToUpstream(sc, c) ==
  LET config == Servers[sc].SMTP IN
  IF c = "dialFailed"
  THEN [conn |-> "nil", err |-> TRUE, panic |-> FALSE, written |-> << >>, handshakes |-> 0]
  ELSE IF config.Port = 587 /\ config.UseTLS
  THEN LET up == upgradeToSTARTTLS(config, c)
       IN [conn |-> up.conn, err |-> up.err, panic |-> up.err, written |-> up.written,
           handshakes |-> up.handshakes]
  ELSE [conn |-> "open", err |-> FALSE, panic |-> FALSE, written |-> << >>,
        handshakes |-> IF config.Port = 465 /\ config.UseTLS THEN 1 ELSE 0]

\* How the upstream takes the handshake of the MAIL handler: closes before a
\* greeting, sends none, closes during the EHLO reply, fails the 1st, 2nd or 3rd
\* step of AUTH LOGIN (another code or a closed connection), or follows the protocol.
HandshakeOutcomes == {"noGreeting", "silent", "ehloEOF", "auth1", "auth2", "auth3", "ok"}

\* after the STARTTLS upgrade the upstream has greeted already and waits for a command
HandshakeOutcomesOf(sc) ==
  IF Servers[sc].SMTP.Port = 587 /\ Servers[sc].SMTP.UseTLS
  THEN {"noGreeting", "silent"}
  ELSE HandshakeOutcomes

\* what the handshake of the MAIL handler has written by then
HandshakeWrites(config, h) ==
  LET all == << EhloProxy, AuthLogin, << Base64Encode(config.Username) >>,
                << Base64Encode(config.Password) >> >>
      n == CASE h \in {"noGreeting", "silent"} -> 0
             [] h = "ehloEOF" -> 1
             [] h = "auth1" -> 2
             [] h = "auth2" -> 3
             [] OTHER -> 4
  IN SubSeq(all, 1, n)

\* the upstream's response to a forwarded command: a code, or a closed connection
Responses == {"250", "354", "550", "EOF"}

\* ------------------------------------------------------------- body relay
\* A body line is the sequence of its bytes, line ending included; "hello"
\* stands for five bytes that are neither '.' nor a line ending.
ByteLen(b) == IF b = "hello" THEN 5 ELSE 1

RECURSIVE LineLen(_)
LineLen(line) == IF line = << >> THEN 0 ELSE ByteLen(Head(line)) + LineLen(Tail(line))

\* messageBuffer.Len()
RECURSIVE BufferLen(_)
BufferLen(lines) == IF lines = << >> THEN 0 ELSE LineLen(Head(lines)) + BufferLen(Tail(lines))

\* len(line) == 3 && line[0] == '.' && line[1] == '\r' && line[2] == '\n'
IsEndMarker(line) == line = <<".", "\r", "\n">>

\* the read loop of handleSMTPDataMode on the lines the client sends before it
\* stops sending: [err, sent]
RECURSIVE DataLoop(_, _, _)
DataLoop(lines, i, messageBuffer) ==
  IF i > Len(lines) THEN [err |-> TRUE, sent |-> << >>]
  ELSE LET buffer == Append(messageBuffer, lines[i]) IN
       IF IsEndMarker(lines[i]) /\ BufferLen(buffer) > 3
       THEN [err |-> FALSE, sent |-> buffer]
       ELSE DataLoop(lines, i + 1, buffer)

\* SMTPServer.handleSMTPDataMode
handleSMTPDataMode(lines) == DataLoop(lines, 1, << >>)

\* the bodies a client sends after 354 in a session: an ordinary one, one with a
\* line that starts with dots, one without a line before the end marker, and one
\* that is never finished
Bodies ==
  [plain |-> << <<"hello", "\r", "\n">>, <<".", "\r", "\n">> >>,
   empty |-> << <<".", "\r", "\n">> >>,
   dotted |-> << <<".", ".", "hello", "\r", "\n">>, <<".", "\r", "\n">> >>,
   unfinished |-> << <<"hello", "\r", "\n">> >>]

\* ----------------------------------------------------- SMTP session: handlers
\* the outcome of handling one line, nothing but a reply by default; used names
\* the parts of the upstream's and the client's behaviour that were consulted
Result(st, lines) ==
  [state |-> st, reply |-> lines, written |-> << >>, dialed |-> 0, handshakes |-> 0,
   status |-> "running", authedAs |-> authedAs, used |-> {}]

\* fmt.Fprintf(state.upstreamConn, "%s\r\n", line); upstreamReader.ReadString('\n');
\* the response relayed, or 451 on a read error
Forward(r, line, m) ==
  [r EXCEPT !.written = r.written \o << line >>,
            !.reply = << IF m = "EOF" THEN Local451 ELSE Relayed(m) >>,
            !.state.upstreamConn = IF m = "EOF" THEN "eof" ELSE "open",
            !.used = @ \cup {"m"}]

\* the responses a connection can still yield
ResponsesOn(conn) == IF conn = "open" THEN Responses ELSE {"EOF"}

\* case "EHLO", "HELO"
EhloResult(st, line) ==
  Result(IF Command(line) = "HELO" /\ Len(Fields(line)) > 1
         THEN [st EXCEPT !.heloHost = Fields(line)[2]] ELSE st,
         << "250-Proxy-Mail SMTP Ready", "250-SIZE 35882577", "250-8BITMIME",
            "250-PIPELINING", "250-AUTH LOGIN PLAIN", "250 STARTTLS" >>)

\* case "AUTH"
AuthResult(st, line) ==
  IF Len(Fields(line)) < 2 THEN Result(st, << "501 Syntax error" >>)
  ELSE IF ToUpper(Fields(line)[2]) = "LOGIN"
  THEN Result([st EXCEPT !.authState = "username"], << "334 VXNlcm5hbWU6" >>)
  ELSE Result(st, << "504 Authentication mechanism not supported" >>)

\* case "MAIL", from the connection attempt on
MailConnect(st, line, c, h, m) ==
  LET config == Servers[st.serverConfig].SMTP
      cn == connectToUpstream(st.serverConfig, c)
      r0 == [Result(st, << >>) EXCEPT !.written = cn.written, !.dialed = 1,
                                      !.handshakes = cn.handshakes, !.used = {"c"}]
      r1 == [r0 EXCEPT !.written = cn.written \o HandshakeWrites(config, h),
                     !.used = {"c", "h"}]
  IN IF cn.panic THEN [r0 EXCEPT !.status = "panic"]
     ELSE IF cn.err THEN [r0 EXCEPT !.reply = << Local451 >>]
     ELSE IF h = "silent"
     THEN [r1 EXCEPT !.status = "blocked", !.state.upstreamConn = "open"]
     ELSE IF h = "ehloEOF"
     THEN \* the inner loop goes on after the 451: Close() on the nil connection
          [r1 EXCEPT !.reply = << Local451 >>, !.status = "panic"]
     ELSE IF h # "ok" THEN [r1 EXCEPT !.reply = << Local451 >>]
     ELSE Forward([r1 EXCEPT !.state.upstreamConn = "open"], line, m)

\* case "MAIL"
MailResult(st, line, c, h, m) ==
  LET senderEmail == extractEmailFromMailFrom(line)
      found == findServerConfigBySender(senderEmail)
      auto == [st EXCEPT !.serverConfig = found, !.authUsername = senderEmail,
                         !.mailboxName = senderEmail, !.isAuthenticated = TRUE]
      st1 == IF st.isAuthenticated THEN st ELSE auto
      bound == IF st.isAuthenticated THEN authedAs ELSE senderEmail
  IN IF senderEmail = "" THEN Result(st, << "501 Invalid MAIL FROM format" >>)
     ELSE IF ~st.isAuthenticated /\ found = 0
     THEN Result(st, << "550 No upstream SMTP server configured for sending mail" >>)
     ELSE IF st.isAuthenticated /\ senderEmail # st.authUsername
     THEN Result(st, << Local550Sender >>)
     ELSE IF st1.upstreamConn = "nil"
     THEN [MailConnect(st1, line, c, h, m) EXCEPT !.authedAs = bound]
     ELSE [Forward(Result(st1, << >>), line, m) EXCEPT !.authedAs = bound]

\* case "RCPT"
RcptResult(st, line, m) ==
  IF ~st.isAuthenticated \/ st.upstreamConn = "nil" THEN Result(st, << Local530 >>)
  ELSE Forward(Result(st, << >>), line, m)

\* case "DATA": f is the final status after the body
DataResult(st, line, m, b, f) ==
  IF ~st.isAuthenticated \/ st.upstreamConn = "nil" THEN Result(st, << Local530 >>)
  ELSE LET r == Forward(Result(st, << >>), line, m)
           relay == handleSMTPDataMode(IF b \in DOMAIN Bodies THEN Bodies[b] ELSE << >>)
       IN IF m # "354" THEN r
          ELSE IF relay.err
          THEN [r EXCEPT !.reply = r.reply \o << Local451 >>, !.used = {"m", "b"}]
          ELSE [r EXCEPT !.written = r.written \o relay.sent,
                         !.reply = r.reply \o << IF f = "EOF" THEN Local451 ELSE Relayed(f) >>,
                         !.state.upstreamConn = IF f = "EOF" THEN "eof" ELSE "open",
                         !.used = {"m", "b", "f"}]

\* default: the answers of AUTH LOGIN, then the commands passed through
DefaultResult(st, line, m) ==
  LET decoded == Base64Decode(Concat(line))
      found == findServerConfigByUsername(st.authUsername)
  IN IF st.authState = "username"
     THEN IF ~decoded.ok
          THEN Result([st EXCEPT !.authState = ""], << "501 Invalid base64 encoding" >>)
          ELSE Result([st EXCEPT !.authUsername = decoded.val, !.authState = "password"],
                      << "334 UGFzc3dvcmQ6" >>)
     ELSE IF st.authState = "password"
     THEN IF ~decoded.ok
          THEN Result([st EXCEPT !.authState = ""], << "501 Invalid base64 encoding" >>)
          ELSE IF found = 0 \/ ~validateCredentials(st.authUsername, decoded.val, found)
          THEN Result([st EXCEPT !.authState = ""], << "535 Authentication failed" >>)
          ELSE [Result([st EXCEPT !.isAuthenticated = TRUE, !.serverConfig = found,
                                  !.mailboxName = st.authUsername],
                       << "235 Authentication successful" >>)
                EXCEPT !.authedAs = st.authUsername]
     ELSE IF ~st.isAuthenticated THEN Result(st, << Local530 >>)
     ELSE IF st.upstreamConn # "nil" THEN Forward(Result(st, << >>), line, m)
     ELSE Result(st, << Local451 >>)

\* ---------------------------------------------------- SMTP session: behaviour
SmtpReady == smtpStatus = "running" /\ smtpCmds < MaxSmtpCmds

\* env names exactly what handling the line consulted
Consulted(r, env) == \A k \in DOMAIN env : (env[k] # "-") <=> (k \in r.used)

\* one line handled with result r
Handle(line, r, env) ==
  /\ Consulted(r, env)
  /\ state' = r.state
  /\ smtpStatus' = r.status
  /\ smtpLine' = line
  /\ smtpReply' = r.reply
  /\ smtpWritten' = r.written
  /\ smtpDialed' = r.dialed
  /\ tlsStarted' = r.handshakes
  /\ smtpEnv' = env
  /\ smtpCmds' = smtpCmds + 1
  /\ authedAs' = r.authedAs
  /\ upstreamAuthed' = IF r.state.upstreamConn \in {"nil", "closed"} THEN 0
                       ELSE IF state.upstreamConn # "nil" THEN upstreamAuthed
                       ELSE IF env.h = "ok" THEN r.state.serverConfig
                       ELSE 0
  /\ UNCHANGED << smtpSections, p3vars, datavars, fetchvars, srvvars, fwdvars >>

\* the session returns without the deferred Close(): the connection stays as it was
SmtpLeftOpen(st) == st

\* the deferred state.upstreamConn.Close()
SmtpClosed(st) ==
  [st EXCEPT !.upstreamConn = IF st.upstreamConn = "nil" THEN "nil" ELSE "closed"]

\* The upstream's behaviour during one connection attempt and what follows it:
\* a failing connection attempt, or a failing handshake after a good one, or the
\* response to the forwarded line after both.
ConnectEnvs(sc) ==
  {[NoEnv EXCEPT !.c = c] : c \in ConnectOutcomes(sc) \ {"ok"}}
  \cup {[NoEnv EXCEPT !.c = "ok", !.h = h] : h \in HandshakeOutcomesOf(sc) \ {"ok"}}
  \cup {[NoEnv EXCEPT !.c = "ok", !.h = "ok", !.m = m] :
          m \in IF "ok" \in HandshakeOutcomesOf(sc) THEN Responses ELSE {}}

\* the upstream's response to a line forwarded on the session's connection
ForwardEnvs(conn) == {[NoEnv EXCEPT !.m = m] : m \in ResponsesOn(conn)}

\* after DATA: another response than 354, or 354 and a body the client never
\* finishes, or 354, a finished body and the final status
DataEnvs(conn) ==
  {[NoEnv EXCEPT !.m = m] : m \in ResponsesOn(conn) \ {"354"}}
  \cup {[NoEnv EXCEPT !.m = "354", !.b = b] :
          b \in {x \in DOMAIN Bodies : conn = "open" /\ handleSMTPDataMode(Bodies[x]).err}}
  \cup {[NoEnv EXCEPT !.m = "354", !.b = b, !.f = f] :
          b \in {x \in DOMAIN Bodies : conn = "open" /\ ~handleSMTPDataMode(Bodies[x]).err},
          f \in Responses \ {"354"}}

\* what handling a MAIL line may meet: used when all goes well tells how far it gets
MailEnvs(st, line) ==
  LET probe == MailResult(st, line, "ok", "ok", "250") IN
  IF probe.used = {} THEN {NoEnv}
  ELSE IF "c" \in probe.used THEN ConnectEnvs(probe.state.serverConfig)
  ELSE ForwardEnvs(st.upstreamConn)

SmtpEHLO(line) ==
  /\ SmtpReady
  /\ Command(line) \in {"EHLO", "HELO"}
  /\ Handle(line, EhloResult(state, line), NoEnv)

SmtpAUTH(line) ==
  /\ SmtpReady
  /\ Command(line) = "AUTH"
  /\ Handle(line, AuthResult(state, line), NoEnv)

SmtpMAIL(line) ==
  /\ SmtpReady
  /\ Command(line) = "MAIL"
  /\ \E env \in MailEnvs(state, line) :
       Handle(line, MailResult(state, line, env.c, env.h, env.m), env)

SmtpRCPT(line) ==
  /\ SmtpReady
  /\ Command(line) = "RCPT"
  /\ \E env \in {NoEnv} \cup ForwardEnvs(state.upstreamConn) :
       Handle(line, RcptResult(state, line, env.m), env)

SmtpDATA(line) ==
  /\ SmtpReady
  /\ Command(line) = "DATA"
  /\ \E env \in {NoEnv} \cup DataEnvs(state.upstreamConn) :
       Handle(line, DataResult(state, line, env.m, env.b, env.f), env)

\* case "QUIT": 221, return
SmtpQUIT(line) ==
  /\ SmtpReady
  /\ Command(line) = "QUIT"
  /\ Handle(line, [Result(SmtpClosed(state), << "221 Goodbye" >>) EXCEPT !.status = "returned"],
            NoEnv)

SmtpDefault(line) ==
  /\ SmtpReady
  /\ Command(line) \notin {"EHLO", "HELO", "AUTH", "MAIL", "RCPT", "DATA", "QUIT", ""}
  /\ \E env \in {NoEnv} \cup ForwardEnvs(state.upstreamConn) :
       Handle(line, DefaultResult(state, line, env.m), env)

\* the client disconnects: break, cleanup
SmtpClientEOF ==
  /\ smtpStatus = "running"
  /\ state' = SmtpClosed(state)
  /\ smtpStatus' = "returned"
  /\ smtpReply' = << >>
  /\ smtpWritten' = << >>
  /\ smtpDialed' = 0
  /\ tlsStarted' = 0
  /\ smtpEnv' = NoEnv
  /\ upstreamAuthed' = 0
  /\ UNCHANGED << smtpLine, smtpCmds, authedAs, smtpSections, p3vars, datavars, fetchvars,
                  srvvars, fwdvars >>

\* the lines a client may send
Senders == {"a@x.com", "b@y.com", "c@z.com", "e@v.net"}

\* the configurations the proxy is loaded with: every profile of Servers with its
\* smtp section, the later ones only, none
SmtpSections == {{1, 2, 3}, {2, 3}, {3}, {}}
MailLines ==
  {<<"MAIL", " ", "FROM:", "<", a, ">">> : a \in Senders}
  \cup { <<"MAIL", " ", "FROM:", "<", ">">>,
         <<"MAIL", " ", "FROM:", "<", "a@x.com", ">", " ", "SIZE=1000">>,
         <<"mail", " ", "from:", " ", "b@y.com">>,
         <<"MAIL">> }
AnswerLines == {<< Base64Encode(d) >> : d \in Encodable} \cup {<<"!!!">>, <<"VRFY", " ", "x">>}
RcptLine == <<"RCPT", " ", "TO:", "<", "d@w.org", ">">>

DoSmtpEHLO == \E line \in {<<"EHLO", " ", "client">>, <<"HELO", " ", "client">>} : SmtpEHLO(line)
DoSmtpAUTH == \E line \in {<<"AUTH", " ", "LOGIN">>, <<"auth", " ", "plain">>, <<"AUTH">>} :
                SmtpAUTH(line)
DoSmtpMAIL == \E line \in MailLines : SmtpMAIL(line)
DoSmtpRCPT == SmtpRCPT(RcptLine)
DoSmtpDATA == SmtpDATA(<<"DATA">>)
DoSmtpQUIT == SmtpQUIT(<<"QUIT">>)
DoSmtpDefault == \E line \in AnswerLines : SmtpDefault(line)

SmtpInit ==
  /\ state = NewState
  /\ smtpStatus = "running"
  /\ smtpLine = << >>
  /\ smtpReply = << "220 Proxy-Mail SMTP Ready" >>
  /\ smtpWritten = << >>
  /\ smtpDialed = 0
  /\ tlsStarted = 0
  /\ smtpEnv = NoEnv
  /\ smtpCmds = 0
  /\ authedAs = ""
  /\ smtpSections \in SmtpSections
  /\ upstreamAuthed = 0
  /\ Pop3Off /\ DataOff /\ FetchOff /\ SrvOff /\ FwdOff

SmtpNext ==
  \/ DoSmtpEHLO \/ DoSmtpAUTH \/ DoSmtpMAIL \/ DoSmtpRCPT \/ DoSmtpDATA
  \/ DoSmtpQUIT \/ DoSmtpDefault \/ SmtpClientEOF

SpecSmtp == SmtpInit /\ [][SmtpNext]_vars

\* a session from its explicit authentication on, the state SpecSmtp reaches with
\* AUTH LOGIN, the username and the password of profile i, answered 235; smtpCmds
\* counts the lines handled after it
SmtpAuthedInit ==
  /\ smtpSections = 1..Len(Servers)
  /\ \E i \in smtpSections :
       /\ state = [NewState EXCEPT !.isAuthenticated = TRUE, !.serverConfig = i,
                                   !.authUsername = Servers[i].SMTP.Username,
                                   !.mailboxName = Servers[i].SMTP.Username,
                                   !.authState = "password"]
       /\ smtpLine = << Base64Encode(Servers[i].SMTP.Password) >>
       /\ authedAs = Servers[i].SMTP.Username
  /\ smtpStatus = "running"
  /\ smtpReply = << "235 Authentication successful" >>
  /\ smtpWritten = << >>
  /\ smtpDialed = 0
  /\ tlsStarted = 0
  /\ smtpEnv = NoEnv
  /\ smtpCmds = 0
  /\ upstreamAuthed = 0
  /\ Pop3Off /\ DataOff /\ FetchOff /\ SrvOff /\ FwdOff

SpecSmtpAuthed == SmtpAuthedInit /\ [][SmtpNext]_vars

\* ------------------------------------------------- body relay on its own
\* the body lines a client may send: a text and its line ending
Texts == {<< >>, <<".">>, <<".", ".">>, <<".", "hello">>, <<".", ".", "hello">>, <<"hello">>}
Endings == {<<"\r", "\n">>, <<"\n">>}
DataLines == {t \o e : t \in Texts, e \in Endings}

\* the client sends up to MaxBody lines and then nothing more
DataInit ==
  /\ dataIn \in UNION {[1..n -> DataLines] : n \in 1..MaxBody}
  /\ dataDone = FALSE
  /\ dataErr = FALSE
  /\ dataSent = << >>
  /\ Pop3Off /\ SmtpOff /\ FetchOff /\ SrvOff /\ FwdOff

RelayData ==
  /\ ~dataDone
  /\ dataDone' = TRUE
  /\ dataErr' = handleSMTPDataMode(dataIn).err
  /\ dataSent' = handleSMTPDataMode(dataIn).sent
  /\ UNCHANGED << dataIn, p3vars, smtpvars, fetchvars, srvvars, fwdvars >>

SpecData == DataInit /\ [][RelayData]_vars

\* --------------------------------------------- RETR and TOP loops on their own
\* the lines a message body may hold
BodyLines == {<<"text">>, <<")">>, <<"see", "RFC822">>, << >>}
MsgHeaders == << <<"Subject:", "hi">>, <<"To:", "bob">> >>

\* message 1 of the INBOX: its headers, the blank line, up to MaxBodyLines lines
FetchInit ==
  /\ \E body \in UNION {[1..n -> BodyLines] : n \in 0..MaxBodyLines} :
       fetchMsg = MsgHeaders \o << << >> >> \o body
  /\ fetchOp = ""
  /\ fetchLimit = 0
  /\ fetchOut = << >>
  /\ Pop3Off /\ SmtpOff /\ DataOff /\ SrvOff /\ FwdOff

\* case "RETR" on a FETCH the upstream answers in full
FetchRETR ==
  /\ fetchOp = ""
  /\ fetchOp' = "RETR"
  /\ fetchOut' = << <<"+OK Message follows">> >>
                 \o RetrLoop(Answer(NextTag(imapTag), FetchData(1, fetchMsg), "OK"), 1, FALSE,
                             << >>, NextTag(imapTag)).out
                 \o << <<".">> >>
  /\ UNCHANGED << fetchMsg, fetchLimit, p3vars, smtpvars, datavars, srvvars, fwdvars >>

\* case "TOP" with line count k on a FETCH the upstream answers in full
FetchTOP(k) ==
  /\ fetchOp = ""
  /\ fetchOp' = "TOP"
  /\ fetchLimit' = k
  /\ fetchOut' = << <<"+OK Top of message follows">> >>
                 \o TopLoop(Answer(NextTag(imapTag), FetchData(1, fetchMsg), "OK"), 1, FALSE,
                            FALSE, 0, k, << >>, NextTag(imapTag)).out
                 \o << <<".">> >>
  /\ UNCHANGED << fetchMsg, p3vars, smtpvars, datavars, srvvars, fwdvars >>

DoFetchTOP == \E k \in 0..MaxTop : FetchTOP(k)

FetchNext == FetchRETR \/ DoFetchTOP

SpecFetch == FetchInit /\ [][FetchNext]_vars

\* ---------------------------- forwarded commands and the upstream's replies
MaxFwd == 3

\* the replies an upstream gives to a forwarded command, each line as code,
\* separator and text: one line, or several of which all but the last have '-'
\* after the code
UpstreamReplies ==
  { << <<"250", " ", "OK">> >>,
    << <<"550", " ", "Rejected">> >>,
    << <<"250", "-", "first">>, <<"250", " ", "last">> >>,
    << <<"250", "-", "first">>, <<"250", "-", "second">>, <<"250", " ", "last">> >> }

\* upstreamReader := bufio.NewReader(state.upstreamConn); upstreamReader.ReadString('\n')
\* on the lines no read has taken yet: the new reader takes the first `buffered`
\* of them from the connection in filling its buffer, ReadString returns the
\* first, and the others go with the reader at the end of the case
ReadString(stream, buffered) ==
  [response |-> stream[1], rest |-> SubSeq(stream, buffered + 1, Len(stream))]

\* a command forwarded on the established connection: the line written upstream,
\* the upstream's reply behind what it has sent before, one ReadString, and the
\* response written to the client
ForwardAndRelay(line) ==
  /\ fwdCmds < MaxFwd
  /\ \E answer \in UpstreamReplies :
       LET stream == upQueue \o answer IN
       \E buffered \in 1..Len(stream) :
         /\ fwdLine' = line
         /\ fwdReply' = answer
         /\ fwdRelayed' = << ReadString(stream, buffered).response >>
         /\ upQueue' = ReadString(stream, buffered).rest
         /\ fwdCmds' = fwdCmds + 1
  /\ UNCHANGED << p3vars, smtpvars, datavars, fetchvars, srvvars >>

\* case "MAIL" on a session that holds its upstream connection
FwdMAIL == ForwardAndRelay(<<"MAIL", " ", "FROM:", "<", "a@x.com", ">">>)

\* case "RCPT"
FwdRCPT == ForwardAndRelay(RcptLine)

\* the connection after the upstream handshake: every line sent so far was read
FwdInit ==
  /\ upQueue = << >> /\ fwdLine = << >> /\ fwdReply = << >> /\ fwdRelayed = << >>
  /\ fwdCmds = 0
  /\ Pop3Off /\ SmtpOff /\ DataOff /\ FetchOff /\ SrvOff

FwdNext == FwdMAIL \/ FwdRCPT

SpecForward == FwdInit /\ [][FwdNext]_vars

\* ------------------------------------------- a server's Start and Stop
\* Start runs in its own goroutine (ProxyService.Start), Stop is called from
\* ProxyService.Stop, and every accepted connection has a session goroutine that
\* sits in its read of the next client line between two commands.
\*   startPc: "listen", "loop" (at the test of for !s.stopping), "accept",
\*            "add" (Accept has returned a connection, before s.wg.Add(1)),
\*            "wait" (s.wg.Wait()), "returned"
\*   stopPc:  "idle" (Stop not called), "flag" (s.stopping = true done), "wait"
\*            (s.wg.Wait()), "returned" (server.Stop() back in ProxyService.Stop,
\*            at ps.wg.Wait()), "psReturned"

\* s.stopping is written by Stop and read by Start without synchronisation: the
\* read yields the flag, or its value from before the write
StoppingSeen == IF stopping THEN {TRUE, FALSE} ELSE {FALSE}

SrvOnly == UNCHANGED << p3vars, smtpvars, datavars, fetchvars, fwdvars >>

SrvInit ==
  /\ stopping = FALSE /\ listener = "nil" /\ wg = 0 /\ busy = 0 /\ accepted = 0
  /\ startPc = "listen" /\ stopPc = "idle"
  /\ Pop3Off /\ SmtpOff /\ DataOff /\ FetchOff /\ FwdOff

\* net.Listen; s.listener = listener
StartListen ==
  /\ startPc = "listen"
  /\ listener' = "open"
  /\ startPc' = "loop"
  /\ SrvOnly /\ UNCHANGED << stopping, wg, busy, accepted, stopPc >>

\* for !s.stopping
StartLoop ==
  /\ startPc = "loop"
  /\ \E seen \in StoppingSeen : startPc' = IF seen THEN "wait" ELSE "accept"
  /\ SrvOnly /\ UNCHANGED << stopping, listener, wg, busy, accepted, stopPc >>

\* listener.Accept() returns a connection
StartAccept ==
  /\ startPc = "accept"
  /\ listener = "open"
  /\ accepted < MaxConns
  /\ accepted' = accepted + 1
  /\ startPc' = "add"
  /\ SrvOnly /\ UNCHANGED << stopping, listener, wg, busy, stopPc >>

\* s.wg.Add(1); go s.handleConnection(conn)
StartAdd ==
  /\ startPc = "add"
  /\ wg' = wg + 1
  /\ startPc' = "loop"
  /\ SrvOnly /\ UNCHANGED << stopping, listener, busy, accepted, stopPc >>

\* listener.Accept() fails on the closed listener: break when s.stopping is seen,
\* else log and continue
StartAcceptError ==
  /\ startPc = "accept"
  /\ listener = "closed"
  /\ \E seen \in StoppingSeen : startPc' = IF seen THEN "wait" ELSE "loop"
  /\ SrvOnly /\ UNCHANGED << stopping, listener, wg, busy, accepted, stopPc >>

\* s.wg.Wait(); return nil
StartWait ==
  /\ startPc = "wait"
  /\ wg = 0
  /\ startPc' = "returned"
  /\ SrvOnly /\ UNCHANGED << stopping, listener, wg, busy, accepted, stopPc >>

\* ProxyService.Stop calls server.Stop(): s.stopping = true
StopFlag ==
  /\ stopPc = "idle"
  /\ stopping' = TRUE
  /\ stopPc' = "flag"
  /\ SrvOnly /\ UNCHANGED << listener, wg, busy, accepted, startPc >>

\* if s.listener != nil { s.listener.Close() }
StopClose ==
  /\ stopPc = "flag"
  /\ listener' = IF listener = "nil" THEN "nil" ELSE "closed"
  /\ stopPc' = "wait"
  /\ SrvOnly /\ UNCHANGED << stopping, wg, busy, accepted, startPc >>

\* s.wg.Wait(); return nil
StopWait ==
  /\ stopPc = "wait"
  /\ wg = 0
  /\ stopPc' = "returned"
  /\ SrvOnly /\ UNCHANGED << stopping, listener, wg, busy, accepted, startPc >>

\* ProxyService.Stop: ps.wg.Wait() for the goroutine that runs Start
PsWait ==
  /\ stopPc = "returned"
  /\ startPc = "returned"
  /\ stopPc' = "psReturned"
  /\ SrvOnly /\ UNCHANGED << stopping, listener, wg, busy, accepted, startPc >>

\* a client sends a line: its session leaves the read and handles it
ClientLine ==
  /\ busy < wg
  /\ busy' = busy + 1
  /\ SrvOnly /\ UNCHANGED << stopping, listener, wg, accepted, startPc, stopPc >>

\* the handler answers and the session reads the next line
HandlerDone ==
  /\ busy > 0
  /\ busy' = busy - 1
  /\ SrvOnly /\ UNCHANGED << stopping, listener, wg, accepted, startPc, stopPc >>

\* the line was QUIT, or the client has closed its connection: the session
\* returns, defer s.wg.Done()
SessionReturns ==
  /\ busy > 0
  /\ busy' = busy - 1
  /\ wg' = wg - 1
  /\ SrvOnly /\ UNCHANGED << stopping, listener, accepted, startPc, stopPc >>

SrvNext ==
  \/ StartListen \/ StartLoop \/ StartAccept \/ StartAdd \/ StartAcceptError \/ StartWait
  \/ StopFlag \/ StopClose \/ StopWait \/ PsWait
  \/ ClientLine \/ HandlerDone \/ SessionReturns

\* Every goroutine that can take a step takes it; when a client connects, sends a
\* line or leaves is the client's choice, and so is when Stop is called.
SpecStop ==
  /\ SrvInit /\ [][SrvNext]_vars
  /\ WF_vars(StartListen) /\ WF_vars(StartLoop) /\ WF_vars(StartAdd)
  /\ WF_vars(StartAcceptError)
  /\ WF_vars(StartWait) /\ WF_vars(StopClose) /\ WF_vars(StopWait) /\ WF_vars(PsWait)
  /\ WF_vars(HandlerDone)

\* ================================================================== claims
\* the commands of the last n lines written upstream
LastCmds(n) == [i \in 1..n |-> upLog[Len(upLog) - n + i].cmd]

\* C1: in one POP3 session the IMAP tags of the commands written upstream are
\* strictly increasing: no tag is used twice and no later command carries a
\* smaller tag than an earlier one.
TagsStrictlyIncreasing ==
  \A i, j \in 1..Len(upLog) : i < j => upLog[i].tag < upLog[j].tag

\* a session that has written LOGIN, SELECT, FETCH, STORE, EXPUNGE and LOGOUT
TagsWitness ==
  /\ p3status = "returned"
  /\ {upLog[i].cmd[1] : i \in 1..Len(upLog)} =
       {"LOGIN", "SELECT", "FETCH", "STORE", "EXPUNGE", "LOGOUT"}

\* C2: the client lines DELE 2, RSET, QUIT in TRANSACTION make the session write
\* STORE 2 +FLAGS (\Deleted), STORE 1:<count> -FLAGS (\Deleted), EXPUNGE, LOGOUT, in
\* this order, and the upstream INBOX holds the same messages afterwards as before.
DeleRsetQuitKeepsMailbox ==
  (scen = 3 /\ messageCount >= 2) =>
    /\ Len(upLog) >= 4
    /\ LastCmds(4) = << <<"STORE", "2", "+FLAGS", "(\\Deleted)">>,
                        <<"STORE", "1:" \o ToString(messageCount), "-FLAGS", "(\\Deleted)">>,
                        <<"EXPUNGE">>,
                        <<"LOGOUT">> >>
    /\ mboxMsgs = 1..messageCount

\* the three lines handled, every command received by the upstream
DeleRsetQuitWitness ==
  /\ scen = 3
  /\ messageCount >= 2
  /\ p3status = "returned"
  /\ \A i \in 1..Len(upLog) : upLog[i].rcvd

\* C7: STAT answers "+OK N T" with T the total of the sizes LIST reports for the
\* messages 1..N (N times the placeholder size).
StatTotalIsListTotal ==
  (lastCmd = <<"STAT">> /\ pop3State = "TRANSACTION") =>
    reply = << <<"+OK", ToString(messageCount), ToString(messageCount * DefaultSize)>> >>

\* a line RETR n, TOP n k, DELE n, LIST n or UIDL n whose n is a number outside 1..count
NumberedOutOfRange(parts, count) ==
  /\ Len(parts) >= 2
  /\ \/ parts[1] \in {"RETR", "DELE", "LIST", "UIDL"} /\ Len(parts) = 2
     \/ parts[1] = "TOP" /\ Len(parts) = 3
  /\ Atoi(parts[2]).ok
  /\ (Atoi(parts[2]).val < 1 \/ Atoi(parts[2]).val > count)

\* a step that handles one client line
HandlesLine == p3status = "running" /\ nCmds' = nCmds + 1

\* C8: in TRANSACTION, RETR n, TOP n k, DELE n, LIST n and UIDL n with n outside
\* [1, count] are answered "-ERR No such message"; nothing is written upstream and
\* the tag counter stays as it was.
OutOfRangeIsLocal ==
  [][ (HandlesLine /\ pop3State = "TRANSACTION" /\ NumberedOutOfRange(lastCmd', messageCount))
      => /\ reply' = << <<"-ERR No such message">> >>
         /\ upLog' = upLog
         /\ imapTag' = imapTag
         /\ upstreamConn' = upstreamConn
         /\ p3status' = "running" ]_vars

\* an out-of-range DELE answered in a session that has messages
OutOfRangeWitness ==
  /\ pop3State = "TRANSACTION"
  /\ messageCount >= 1
  /\ lastCmd = <<"DELE", ToString(messageCount + 1)>>
  /\ reply = << <<"-ERR No such message">> >>

\* a verb outside its phase
OutOfPhase(parts, phase) ==
  /\ Len(parts) >= 1
  /\ \/ phase = "TRANSACTION" /\ parts[1] \in {"USER", "PASS"}
     \/ phase = "AUTHORIZATION" /\
          parts[1] \in {"STAT", "LIST", "UIDL", "RETR", "TOP", "DELE", "NOOP", "RSET"}

\* C9: a command outside its phase is answered "-ERR Command not valid in this
\* state" and leaves phase, candidate profile, upstream link, tag counter and
\* snapshot as they were.
OutOfPhaseRejected ==
  [][ (HandlesLine /\ OutOfPhase(lastCmd', pop3State))
      => /\ reply' = << <<"-ERR Command not valid in this state">> >>
         /\ UNCHANGED << pop3State, serverConfig, upstreamConn, upstreamConfig, imapTag,
                         messageCount, authenticated, selectedMailbox >> ]_vars

\* a step that handles one SMTP client line
SmtpHandles == smtpStatus = "running" /\ smtpCmds' = smtpCmds + 1

\* the address a MAIL FROM line names: what stands between "FROM:" and a parameter,
\* without blanks and angle brackets
MailAddress(line) ==
  LET at == {i \in 1..Len(line) : ToUpper(line[i]) = "FROM:"}
      from == CHOOSE i \in at : \A j \in at : i <= j
      rest == IF at = {} THEN << >> ELSE SubSeq(line, from + 1, Len(line))
      names == {i \in 1..Len(rest) : rest[i] \notin {" ", "<", ">"}}
      first == CHOOSE i \in names : \A j \in names : i <= j
  IN IF names = {} \/ \E i \in 1..Len(rest) : rest[i] = ">" /\ i < first
     THEN "" ELSE rest[first]

\* C3: in a session authenticated as identity a, a MAIL FROM whose address differs
\* from a is answered 550, and handling it opens no upstream connection and writes
\* nothing upstream (a being a plain address, and the line one without parameters,
\* from which the session takes the address it names).
SenderMismatchRejected ==
  [][ (/\ SmtpHandles
       /\ state.isAuthenticated
       /\ authedAs \in Senders
       /\ Command(smtpLine') = "MAIL"
       /\ extractEmailFromMailFrom(smtpLine') = MailAddress(smtpLine')
       /\ MailAddress(smtpLine') \notin {"", authedAs})
      => /\ smtpReply' = << Local550Sender >>
         /\ smtpDialed' = 0
         /\ smtpWritten' = << >>
         /\ state'.upstreamConn = state.upstreamConn ]_vars

\* the lines before the first line that is exactly "." CRLF; all when there is none
BeforeEndMarker(lines) ==
  LET ends == {i \in 1..Len(lines) : lines[i] = <<".", "\r", "\n">>}
  IN IF ends = {} THEN lines
     ELSE SubSeq(lines, 1, (CHOOSE i \in ends : \A j \in ends : i <= j) - 1)

\* a body line with one more '.' in front when it starts with '.'
DotStuffed(line) == IF Head(line) = "." THEN <<".">> \o line ELSE line

\* C4: when the client's body holds a line that is exactly ".", the body relay ends
\* there: what it has written upstream is every line before it, with one more '.'
\* in front of those that begin with '.', and then the end marker alone.
DotStuffedRelay ==
  (dataDone /\ BeforeEndMarker(dataIn) # dataIn) =>
    /\ ~dataErr
    /\ dataSent = [i \in 1..Len(BeforeEndMarker(dataIn)) |-> DotStuffed(dataIn[i])]
                  \o << <<".", "\r", "\n">> >>

\* C5: the reply to RETR n is "+OK", the lines of the message as the upstream
\* sent them, none dropped, added or changed, and a last line ".".
RetrGivesWholeMessage ==
  fetchOp = "RETR" =>
    fetchOut = << <<"+OK Message follows">> >> \o fetchMsg \o << <<".">> >>

\* the lines of a message up to its first blank line, and those after it
HeaderPart(msg) ==
  LET blanks == {i \in 1..Len(msg) : msg[i] = << >>}
  IN IF blanks = {} THEN msg
     ELSE SubSeq(msg, 1, (CHOOSE i \in blanks : \A j \in blanks : i <= j) - 1)
BodyPart(msg) == SubSeq(msg, Len(HeaderPart(msg)) + 2, Len(msg))

\* the smaller of two numbers
Min(a, b) == IF a < b THEN a ELSE b

\* C6: the reply to TOP n k holds the header lines of the message, the blank line
\* and the first min(k, number of body lines) body lines, then a last line ".".
TopGivesHeadersAndKLines ==
  fetchOp = "TOP" =>
    fetchOut = << <<"+OK Top of message follows">> >>
               \o HeaderPart(fetchMsg) \o << << >> >>
               \o SubSeq(BodyPart(fetchMsg), 1, Min(fetchLimit, Len(BodyPart(fetchMsg))))
               \o << <<".">> >>

\* C10: when the upstream answers STARTTLS with another code than 220, the MAIL
\* FROM is answered 451, no TLS handshake is started, the session holds no upstream
\* connection and keeps running.
StarttlsRefusalAnswered451 ==
  [][ (SmtpHandles /\ smtpEnv'.c = "refused")
      => /\ smtpReply' = << Local451 >>
         /\ tlsStarted' = 0
         /\ state'.upstreamConn = "nil"
         /\ smtpStatus' = "running" ]_vars

\* the sender is the SMTP username of a profile on the STARTTLS submission port
OnSubmissionPort(sender) ==
  LET sc == findServerConfigByUsername(sender)
  IN sc # 0 /\ Servers[sc].SMTP.Port = 587 /\ Servers[sc].SMTP.UseTLS

\* C11: an unauthenticated client's MAIL FROM whose sender matches a profile on the
\* STARTTLS submission port, with an upstream that takes the upgrade and the login,
\* binds that profile and is answered with the upstream's reply to the MAIL FROM.
AutoBindRelaysUpstreamReply ==
  [][ (/\ SmtpHandles
       /\ ~state.isAuthenticated
       /\ Command(smtpLine') = "MAIL"
       /\ OnSubmissionPort(extractEmailFromMailFrom(smtpLine'))
       /\ smtpEnv'.c = "ok")
      => /\ smtpStatus' = "running"
         /\ state'.serverConfig = findServerConfigByUsername(extractEmailFromMailFrom(smtpLine'))
         /\ \E m \in Responses \ {"EOF"} : smtpReply' = << Relayed(m) >> ]_vars

\* C12: once an SMTP session has a bound profile, no later line of the session
\* changes which profile is bound.
BoundProfileNeverChanges ==
  [][ (state.isAuthenticated /\ state.serverConfig # 0)
      => state'.serverConfig = state.serverConfig ]_vars

\* C13: handling the password line of AUTH LOGIN leaves the auth sub-state none,
\* on 235 as on 535, so that the next line is taken as a command.
AuthSubStateCleared ==
  [][ (/\ SmtpHandles
       /\ state.authState = "password"
       /\ Command(smtpLine') \notin {"EHLO", "HELO", "AUTH", "MAIL", "RCPT", "DATA", "QUIT"})
      => state'.authState = "" ]_vars

\* the upstream fails the connection attempt or a step of the handshake
HandshakeFails(env) ==
  \/ env.c \notin {"-", "ok"}
  \/ env.h \in {"noGreeting", "ehloEOF", "auth1", "auth2", "auth3"}

\* C20: when establishing the upstream connection for MAIL FROM fails at any step,
\* the client gets exactly one 451, the session holds no upstream connection
\* afterwards and keeps running.
HandshakeFailureAnswered451 ==
  [][ (SmtpHandles /\ Command(smtpLine') = "MAIL" /\ HandshakeFails(smtpEnv'))
      => /\ smtpReply' = << Local451 >>
         /\ state'.upstreamConn = "nil"
         /\ smtpStatus' = "running" ]_vars

\* the passwords stored in the profiles
StoredPasswords ==
  {Servers[i].POP3.Password : i \in {k \in 1..Len(Servers) : ~Servers[k].POP3.nil}}
  \cup {Servers[i].IMAP.Password : i \in {k \in 1..Len(Servers) : ~Servers[k].IMAP.nil}}
  \cup {Servers[i].SMTP.Password : i \in {k \in 1..Len(Servers) : ~Servers[k].SMTP.nil}}

\* C14: no stored password, and no client line that carries one, is written to the
\* log or to the client: no log entry and no reply line holds a stored password.
PasswordsNeverLogged ==
  /\ \A i \in 1..Len(logged) : \A j \in 1..Len(logged[i]) : logged[i][j] \notin StoredPasswords
  /\ \A i \in 1..Len(reply) : \A j \in 1..Len(reply[i]) : reply[i][j] \notin StoredPasswords

\* a step that handles a PASS line in AUTHORIZATION with a candidate profile chosen
HandlesPass ==
  /\ HandlesLine
  /\ lastCmd'[1] = "PASS"
  /\ pop3State = "AUTHORIZATION"
  /\ serverConfig # 0

\* C15: PASS handled in AUTHORIZATION against an IMAP upstream either ends with
\* "+OK" in TRANSACTION, LOGIN and SELECT both answered with a tagged OK, or with
\* one "-ERR" line and the end of the session.
PassFailureEndsSession ==
  [][ (HandlesPass /\ ~Servers[serverConfig].IMAP.nil)
      => \/ /\ pop3State' = "TRANSACTION"
            /\ reply' = << <<"+OK Mailbox locked and ready">> >>
            /\ authenticated' /\ selectedMailbox'
            /\ p3status' = "running"
         \/ /\ pop3State' = "AUTHORIZATION"
            /\ reply' \in { << <<"-ERR Cannot connect to mail server">> >>,
                            << <<"-ERR Authentication failed">> >>,
                            << <<"-ERR Cannot select INBOX">> >> }
            /\ p3status' = "returned" ]_vars

\* the profile a username selects by itself: the first whose POP3 or IMAP username
\* equals it but for case, else the first available profile
CandidateFor(name) ==
  LET named == {i \in 1..Len(Servers) :
                  \/ ~Servers[i].POP3.nil /\ ToUpper(Servers[i].POP3.Username) = ToUpper(name)
                  \/ ~Servers[i].IMAP.nil /\ ToUpper(Servers[i].IMAP.Username) = ToUpper(name)}
      imap == {i \in 1..Len(Servers) : ~Servers[i].IMAP.nil}
      pop3 == {i \in 1..Len(Servers) : ~Servers[i].POP3.nil}
      from == IF named # {} THEN named ELSE IF imap # {} THEN imap ELSE pop3
  IN IF from = {} THEN 0 ELSE CHOOSE i \in from : \A j \in from : i <= j

\* C16: each USER accepted in AUTHORIZATION selects the candidate profile from its
\* own username alone, whatever earlier USER commands selected.
UserSelectsFromOwnName ==
  [][ (/\ HandlesLine
       /\ Len(lastCmd') = 2 /\ lastCmd'[1] = "USER"
       /\ pop3State = "AUTHORIZATION")
      => serverConfig' = CandidateFor(lastCmd'[2]) ]_vars

\* the PASS lines of two clients that differ in the password alone
PassTexts == {<<"PASS", "secret">>, <<"PASS", "pwA">>, <<"PASS">>}

\* C17: the text of the password never influences the session: what a PASS line
\* does to the session (client reply, upstream commands, every variable of the
\* session) under some upstream behaviour is what any other PASS line does under it.
PassTextIgnored ==
  [][ (HandlesLine /\ lastCmd'[1] = "PASS")
      => \A l1 \in {l \in PassTexts : UpperFields(l) = lastCmd'}, e \in PassEnvs :
           CmdPASS(l1, e[1], e[2], e[3])
             => \A l2 \in PassTexts : PassEffect(l2, e[1], e[2], e[3]) ]_vars

\* a login carried out on a PASS line that holds the stored password itself
PassTextWitness ==
  /\ lastCmd = <<"PASS", "PWA">>
  /\ pop3State = "TRANSACTION"
  /\ Len(upLog) = 2
  /\ upLog[1].cmd = <<"LOGIN", "alice", "pwA">>

Pop3ProfileGetsNoImapCommand ==
  (serverConfig # 0 /\ Servers[serverConfig].IMAP.nil /\ ~Servers[serverConfig].POP3.nil)
    => \A i \in 1..Len(upLog) :
         upLog[i].cmd[1] \notin {"LOGIN", "SELECT", "FETCH", "STORE", "EXPUNGE", "LOGOUT"}

\* C28: once Stop is called on a server it returns, and ProxyService.Stop with it,
\* whatever the clients do: also when a client keeps its session open and idle.
StopEventuallyReturns ==
  (stopPc = "flag") ~> (stopPc = "psReturned")

\* C21: RCPT TO handled while the session has no upstream connection is answered
\* 451 and writes nothing upstream; with a connection the line is written upstream
\* as it came and the upstream's response is the reply.
RcptNeedsUpstream ==
  [][ (SmtpHandles /\ Command(smtpLine') = "RCPT")
      => IF state.upstreamConn = "nil"
         THEN smtpReply' = << Local451 >> /\ smtpWritten' = << >>
         ELSE /\ smtpWritten' = << smtpLine' >>
              /\ smtpEnv'.m # "EOF" => smtpReply' = << Relayed(smtpEnv'.m) >> ]_vars

\* C23: QUIT is answered 221 by the session itself, nothing is written upstream,
\* the session returns with its upstream connection closed when it has one, and a
\* session that has returned handles no further line.
QuitEndsSession ==
  [][ /\ (SmtpHandles /\ Command(smtpLine') = "QUIT")
           => /\ smtpReply' = << "221 Goodbye" >>
              /\ smtpWritten' = << >>
              /\ smtpStatus' = "returned"
              /\ state'.upstreamConn = IF state.upstreamConn = "nil" THEN "nil" ELSE "closed"
      /\ smtpStatus = "returned" => UNCHANGED smtpvars ]_vars

\* a QUIT handled in a session that holds an upstream connection
QuitWitness ==
  /\ Command(smtpLine) = "QUIT"
  /\ smtpStatus = "returned"
  /\ state.upstreamConn = "closed"
  /\ state.isAuthenticated

\* C24: when DATA has relayed a body and the final status, the session is
\* unauthenticated again.
TransactionEndsUnauthenticated ==
  [][ (SmtpHandles /\ Command(smtpLine') = "DATA" /\ smtpEnv'.f \notin {"-", "EOF"})
      => ~state'.isAuthenticated ]_vars

\* C25: when the body relay ends on a read error before the end marker, the client
\* gets a 451 and the session returns with its upstream connection closed.
RelayDeadlineAbortsSession ==
  [][ (SmtpHandles /\ smtpEnv'.b # "-" /\ smtpEnv'.f = "-")
      => /\ smtpReply'[Len(smtpReply')] = Local451
         /\ smtpStatus' = "returned"
         /\ state'.upstreamConn = "closed" ]_vars

\* the client's body holds the end marker, a line that is exactly "." CRLF
HasEndMarker(b) ==
  b \in DOMAIN Bodies /\ \E i \in 1..Len(Bodies[b]) : IsEndMarker(Bodies[b][i])

\* C22: DATA on an established upstream connection enters the body relay exactly
\* when the upstream's response is 354; another response is the reply and the
\* session goes on with the next line as a command; once the client has sent the
\* end marker, one final status is read from the upstream and relayed.
DataRelayOn354 ==
  [][ (/\ SmtpHandles
       /\ Command(smtpLine') = "DATA"
       /\ state.upstreamConn = "open"
       /\ smtpEnv'.m # "EOF")
      => /\ (smtpEnv'.b # "-") <=> (smtpEnv'.m = "354")
         /\ smtpEnv'.m # "354"
              => /\ smtpReply' = << Relayed(smtpEnv'.m) >>
                 /\ smtpWritten' = << smtpLine' >>
                 /\ smtpStatus' = "running"
         /\ HasEndMarker(smtpEnv'.b)
              => /\ smtpEnv'.f # "-"
                 /\ smtpEnv'.f # "EOF"
                      => smtpReply' = << Relayed("354"), Relayed(smtpEnv'.f) >> ]_vars

\* the stored credentials of a profile as AUTH LOGIN writes them upstream
CredentialLines(sc) ==
  { << Base64Encode(Servers[sc].SMTP.Username) >>, << Base64Encode(Servers[sc].SMTP.Password) >> }

\* C26: on a connection opened for a profile with UseTLS, AUTH LOGIN and the stored
\* credentials are written only after a TLS handshake, and after STARTTLS where the
\* connection began as plain TCP.
CredentialsOnlyOverTLS ==
  (smtpDialed = 1 /\ state.serverConfig # 0 /\ Servers[state.serverConfig].SMTP.UseTLS)
    => \A k \in 1..Len(smtpWritten) :
         smtpWritten[k] \in CredentialLines(state.serverConfig) \cup {AuthLogin}
           => /\ tlsStarted >= 1
              /\ \A j \in 1..Len(smtpWritten) : smtpWritten[j] = StartTLS => j < k

\* C27: an SMTP session ends by returning and by nothing else, and a session that
\* has returned holds no upstream connection that is still open.
SessionReleasesResources ==
  /\ smtpStatus # "panic"
  /\ smtpStatus = "returned" => state.upstreamConn \in {"nil", "closed"}

\* one client-visible response: a status line, alone or followed by a block that
\* ends with the line "."
OneResponse(lines) ==
  /\ Len(lines) >= 1
  /\ Len(lines) > 1 => lines[Len(lines)] = <<".">>

\* C29: every client line a POP3 session handles is answered with one response,
\* and the session is done with the line: it is not left waiting for the upstream.
RequestResponse ==
  [][ HandlesLine => (OneResponse(reply') /\ p3status' \in {"running", "returned"}) ]_vars

\* C30: on an IMAP upstream the wait for the reply to the command of RETR, TOP,
\* DELE, RSET or QUIT ends with the tagged line, OK, NO or BAD: the session is not
\* left in the read loop.
TaggedReplyEndsWait ==
  (/\ protocol = "IMAP"
   /\ Len(lastCmd) >= 1
   /\ lastCmd[1] \in {"RETR", "TOP", "DELE", "RSET", "QUIT"})
    => p3status # "blocked"

\* C31: DELE n is answered "+OK Message n deleted" only when the tagged OK of its
\* STORE +FLAGS (\Deleted) was read: the upstream has then flagged message n, and
\* the connection is not at its end.
DeleOkOnlyAfterTaggedOk ==
  [][ (/\ HandlesLine
       /\ lastCmd'[1] = "DELE"
       /\ reply' # << >>
       /\ reply'[1][1] = "+OK Message")
      => /\ upstreamConn' = "open"
         /\ Atoi(lastCmd'[2]).val \in mboxFlagged' ]_vars

\* the first of the profiles in configuration order
FirstProfile(profiles) == CHOOSE i \in profiles : \A j \in profiles : i <= j

\* C32: in an unauthenticated session MAIL FROM:<addr> binds the profile whose SMTP
\* username is addr when there is one, otherwise the first profile in configuration
\* order that has SMTP credentials; when no profile has SMTP credentials the line is
\* answered 550 and the session stays as it was, unbound and unauthenticated.
MailFromBindsProfile ==
  [][ (/\ SmtpHandles
       /\ ~state.isAuthenticated
       /\ MailAddress(smtpLine') # ""
       /\ smtpLine' = <<"MAIL", " ", "FROM:", "<", MailAddress(smtpLine'), ">">>)
      => LET addr == MailAddress(smtpLine')
             named == {i \in smtpSections : Servers[i].SMTP.Username = addr}
         IN IF named # {}
            THEN state'.serverConfig = FirstProfile(named) /\ state'.isAuthenticated
            ELSE IF smtpSections # {}
            THEN state'.serverConfig = FirstProfile(smtpSections) /\ state'.isAuthenticated
            ELSE /\ smtpReply' = << "550 No upstream SMTP server configured for sending mail" >>
                 /\ state' = state
                 /\ state.serverConfig = 0
                 /\ smtpDialed' = 0 /\ smtpWritten' = << >> ]_vars

\* an address without a profile of its own bound to the first profile that has SMTP
\* credentials, which is not the first profile of the configuration
MailFromFallbackWitness ==
  /\ smtpLine = <<"MAIL", " ", "FROM:", "<", "c@z.com", ">">>
  /\ smtpSections = {2, 3}
  /\ state.serverConfig = 2
  /\ state.isAuthenticated

\* a line that is exactly ".", ended by CRLF or by a bare LF
IsDotLine(line) == line \in { <<".", "\r", "\n">>, <<".", "\n">> }

\* C33: the body relay ends at the client's first line that is exactly ".", ended
\* by CRLF or by a bare LF, with or without a body line before it: it returns
\* without error and what it has written upstream ends with that line.
RelayEndsAtFirstDotLine ==
  LET dots == {i \in 1..Len(dataIn) : IsDotLine(dataIn[i])}
      first == CHOOSE i \in dots : \A j \in dots : i <= j
  IN (dataDone /\ dots # {}) =>
       /\ ~dataErr
       /\ Len(dataSent) = first
       /\ dataSent[first] = dataIn[first]

\* C34: when a forwarded command has been handled, the last line written to the
\* client for it is a final line of the upstream's reply (a blank after the code),
\* and no line the upstream has sent is left for the read of the next command.
WholeReplyRelayed ==
  fwdCmds > 0 =>
    /\ fwdRelayed # << >>
    /\ fwdRelayed[Len(fwdRelayed)][2] = " "
    /\ upQueue = << >>

\* C35: no step of a POP3 session writes to an upstream connection or reads an
\* upstream configuration that is absent, and QUIT in AUTHORIZATION before any PASS
\* is answered "+OK Goodbye" and ends the session.
AbsentUpstreamNeverUsed ==
  [][ /\ p3status' # "panic"
      /\ (/\ HandlesLine
          /\ lastCmd'[1] = "QUIT"
          /\ pop3State = "AUTHORIZATION"
          /\ upstreamConn = "nil")
           => (reply' = << <<"+OK Goodbye">> >> /\ p3status' = "returned") ]_vars

\* C36: in a session authenticated by AUTH LOGIN the authenticated identity is the
\* SMTP username of the bound profile, also after a later AUTH LOGIN attempt.
ExplicitIdentityIsProfile ==
  state.isAuthenticated =>
    /\ state.serverConfig # 0
    /\ state.authUsername = Servers[state.serverConfig].SMTP.Username

\* the state SmtpAuthedInit starts from, reached in a session from its greeting
ExplicitAuthReached ==
  /\ smtpCmds = 3
  /\ state = [NewState EXCEPT !.isAuthenticated = TRUE, !.serverConfig = 2,
                              !.authUsername = "b@y.com", !.mailboxName = "b@y.com",
                              !.authState = "password"]
  /\ smtpLine = << Base64Encode(Servers[2].SMTP.Password) >>
  /\ smtpReply = << "235 Authentication successful" >>
  /\ authedAs = Servers[2].SMTP.Username
  /\ smtpWritten = << >> /\ smtpDialed = 0 /\ tlsStarted = 0 /\ smtpEnv = NoEnv

\* C37: when DELE n has been answered "+OK" on the upstream's tagged OK, the next
\* line of the session, if it is RETR n, TOP n k, LIST n, UIDL n or DELE n, is
\* answered "-ERR", and if it is STAT, the count it reports is without message n.
DeletedUntilRset ==
  [][ (/\ HandlesLine
       /\ pop3State = "TRANSACTION"
       /\ Len(lastCmd) = 2 /\ lastCmd[1] = "DELE"
       /\ reply = << <<"+OK Message", lastCmd[2], "deleted">> >>
       /\ Atoi(lastCmd[2]).val \in mboxFlagged)
      => /\ (/\ Len(lastCmd') >= 2
             /\ lastCmd'[2] = lastCmd[2]
             /\ \/ lastCmd'[1] \in {"RETR", "LIST", "UIDL", "DELE"} /\ Len(lastCmd') = 2
                \/ lastCmd'[1] = "TOP" /\ Len(lastCmd') = 3)
              => /\ reply' # << >>
                 /\ reply'[1] \in {ErrNoSuch, ErrState, ErrSyntax}
         /\ lastCmd' = <<"STAT">>
              => reply'[1][2] = ToString(messageCount - 1) ]_vars

\* C38: once Stop has returned, no session of the server is running and none is
\* started.
NoSessionAfterStop ==
  stopPc \in {"returned", "psReturned"} => wg = 0

\* C39: whenever the session reads a command while it holds an upstream
\* connection, the upstream has answered 235 on that connection to AUTH LOGIN with
\* the stored credentials of the profile the session is bound to.
UpstreamAuthenticatedAsBound ==
  (smtpStatus = "running" /\ state.upstreamConn \notin {"nil", "closed"})
    => /\ upstreamAuthed # 0
       /\ upstreamAuthed = state.serverConfig

\* a MAIL FROM line without what follows the closing angle bracket
WithoutParameters(line) ==
  LET closing == {i \in 1..Len(line) : line[i] = ">"}
  IN IF closing = {} THEN line
     ELSE SubSeq(line, 1, CHOOSE i \in closing : \A j \in closing : i <= j)

\* C40: the sender address the session takes from a MAIL FROM line is the one it
\* takes from the line without its ESMTP parameters, and with it the profile found
\* for the sender is the same.
ParametersDoNotChangeSender ==
  Command(smtpLine) = "MAIL" =>
    /\ extractEmailFromMailFrom(smtpLine)
         = extractEmailFromMailFrom(WithoutParameters(smtpLine))
    /\ findServerConfigBySender(extractEmailFromMailFrom(smtpLine))
         = findServerConfigBySender(extractEmailFromMailFrom(WithoutParameters(smtpLine)))

====
